---- MODULE Spec2Model ----
(***************************************************************************)
(* Model of the media catalog engine of ha-media-index:                    *)
(*   cache_manager.py  the SQLite store (media_files, exif_data,           *)
(*                     geocode_cache, scan_history)                        *)
(*   scanner.py        the full walk (scan_folder) and the single-file     *)
(*                     ingest (scan_file)                                  *)
(*   watcher.py        the event handler, its drain loop and stop_watching *)
(*                                                                         *)
(* SQL NULL / Python None is NoneInt in a numeric column and NoneStr in a  *)
(* text column.  A table is a function whose domain is the set of keys     *)
(* that have a row.                                                        *)
(***************************************************************************)
EXTENDS Integers, Sequences, FiniteSets, TLC

\* ------------------------------------------------------------------ bounds
NumPaths == 1
NumIngestPaths == 1
MaxTime == 4
NumWalkers == 2
NumWatchPaths == 2
MaxEvents == 2
\* MAX_BATCH_SIZE, 50 in watcher.py, scaled to the number of paths
MaxBatchSize == 2
MaxCalls == 2
NumRows == 2
MaxPages == 4
MaxInserts == 1
NumBurstRows == 2
NumSampleRows == 2
MaxLookups == 3
NumCallers == 2
MaxRequests == 3
MaxClock == 6
MaxRemovals == 2
MaxSetups == 2
MaxCounted == 1
NumWalkFiles == 2

\* --------------------------------------------------------------- constants
\* geocoding.py RATE_LIMIT_DELAY = 1.0, in clock steps of half a second
RATE_LIMIT_DELAY == 2
\* geocoding.py reverse_geocode(..., max_retries: int = 3)
max_retries == 3
NoneInt == -1
NoneStr == "NULL"

Paths == 1..NumPaths
IngestPaths == 1..NumIngestPaths
WalkFiles == 1..NumWalkFiles
\* a media file located under <base folder>/_Junk
JunkFile == 0
Walkers == 1..NumWalkers

\* ratings an extractor can report (exif_parser.py:288-290, video_parser.py:107-112)
Ratings == {NoneInt, 3, 5}

\* coordinates in units of 0.0001 degree; two values in two different cells
Latitudes == {407123, 515074}
Longitudes == {740060}

NoPlace ==
  [location_name |-> NoneStr, location_city |-> NoneStr,
   location_state |-> NoneStr, location_country |-> NoneStr]

\* answers of _parse_nominatim_response: two full places and one without city
PlaceA ==
  [location_name |-> "Eiffel", location_city |-> "Paris",
   location_state |-> "IdF", location_country |-> "France"]
PlaceB ==
  [location_name |-> "Soho", location_city |-> "London",
   location_state |-> "England", location_country |-> "UK"]
PlaceSea ==
  [location_name |-> "Atlantic", location_city |-> "",
   location_state |-> "", location_country |-> ""]

\* what reverse_geocode returns: None or a place dict
GeoNone == [ok |-> FALSE, place |-> NoPlace]
GeoAnswers == {GeoNone} \cup {[ok |-> TRUE, place |-> pl] : pl \in {PlaceA, PlaceB, PlaceSea}}

\* what extract_exif / extract_metadata returns: None or a dict
ExifNone == [ok |-> FALSE, rating |-> NoneInt, latitude |-> NoneInt, longitude |-> NoneInt]
\* rating and coordinates are read into disjoint columns by disjoint code, so
\* the extractions vary one of the two at a time
ExifDicts ==
  {[ok |-> TRUE, rating |-> r, latitude |-> NoneInt, longitude |-> NoneInt] : r \in Ratings}
  \cup {[ok |-> TRUE, rating |-> NoneInt, latitude |-> la, longitude |-> lo] :
          la \in Latitudes, lo \in Longitudes}
Extractions == {ExifNone} \cup ExifDicts

\* an ingest's inputs: the extraction, and the geocoder's answer where the
\* extraction has coordinates to send
IngestInputs ==
  {<<e, GeoNone>> : e \in {x \in Extractions : x.latitude = NoneInt}}
  \cup {<<e, g>> : e \in {x \in Extractions : x.latitude # NoneInt}, g \in GeoAnswers}

VARIABLES
  media_files,     \* path -> row of table media_files
  exif_data,       \* file_id -> row of table exif_data
  geocode_cache,   \* <<lat, lon>> rounded -> place
  media_seq,       \* AUTOINCREMENT counter of media_files
  enable_geocoding,\* MediaScanner.enable_geocoding
  files,           \* the filesystem: path -> [mtime, size]
  now,             \* the clock, datetime.now()
  lastOp,          \* the operation performed by the last step and its inputs
  scan_history,    \* scan_id -> row of table scan_history
  dbOpen,          \* the aiosqlite connection is open (CacheManager.close not yet called)
  stats_dirty,     \* the in-memory geocode hit/miss counters are not both zero
  is_scanning,     \* MediaScanner._is_scanning
  walk,            \* walker -> the locals of its scan_folder call
  calls,           \* number of scan_folder calls made so far
  rejected,        \* number of scan_folder calls that returned "already in progress"
  finished,        \* one summary per walk that has ended
  escaped,         \* the operations an exception has propagated out of
  observer,        \* MediaWatcher.observer: "none" or "alive"
  threadq,         \* callbacks handed to the loop by call_soon_threadsafe, not yet run
  pending_new,     \* _pending_new: path -> timestamp
  pending_modified,\* _pending_modified: path -> timestamp
  pending_deleted, \* _pending_deleted: set of paths
  processor_task,  \* _processor_task: "none", "pending", "cancelling" or "done"
  is_processing,   \* _is_processing
  drain,           \* where _process_event_batches is suspended, and its current batch
  evclock,         \* datetime.now() as seen by the event callbacks
  emitted,         \* number of raw events the observer thread has delivered
  handled,         \* the calls _handle_*_file has made, in order
  scen,            \* path -> the created(p)-then-modified(p) sequence being followed
  stopped,         \* stop_watching has returned and start_watching was not called since
  catalog,         \* the rows of media_files LEFT JOIN exif_data that a listing reads
  order_by,        \* get_ordered_files argument
  order_direction, \* get_ordered_files argument
  count,           \* get_ordered_files argument
  after_value,     \* the cursor the caller passes next
  after_id,        \* the cursor the caller passes next
  collected,       \* ids of the rows the pages returned so far, in order
  page_calls,      \* number of get_ordered_files calls made
  exhausted,       \* an empty page was returned
  query,           \* the arguments of a read-side call and the rows it reads
  answer,          \* what the call returned
  lookups,         \* the geocode_file calls made so far and what each one did
  geocoder,        \* GeocodeService: _last_request_time, the loop's clock, the
                   \* callers inside reverse_geocode, the requests sent
  removal,         \* the last remove_file / delete_file call and what it returned
  on_disk,         \* the media files that exist under the scanned folder, and how
                   \* many walks had ended when the folder last changed
  pending_exif,    \* the add_exif_data call that has read the row and not yet
                   \* written it: its file and the store as it read it
  schema,          \* the columns of table exif_data, the geocode_stats row, and
                   \* what the async_setup calls made so far did
  orphaned_tasks,  \* drain tasks still running that _processor_task no longer refers to
  geocode_counters \* CacheManager's in-memory _geocode_stats_cache_hits, _cache_misses
                   \* and _counter, each task's _flush_geocode_stats call, and
                   \* whether the walk has returned

storeVars == <<media_files, exif_data, geocode_cache, media_seq>>
ingestVars == <<enable_geocoding, files, now, lastOp>>
walkVars == <<scan_history, dbOpen, is_scanning, walk, calls, rejected, finished, escaped>>
watchVars == <<observer, threadq, pending_new, pending_modified, pending_deleted,
               processor_task, is_processing, drain, evclock, emitted, handled,
               scen, stopped>>
pageVars == <<catalog, order_by, order_direction, count, after_value, after_id,
              collected, page_calls, exhausted>>
queryVars == <<query, answer>>
serviceVars == <<lookups, geocoder, removal, on_disk, pending_exif>>
setupVars == <<schema, orphaned_tasks, geocode_counters>>
otherVars == <<watchVars, pageVars, queryVars, serviceVars, setupVars>>
vars == <<storeVars, stats_dirty, ingestVars, walkVars, watchVars, pageVars, queryVars,
          serviceVars, setupVars>>

\* ------------------------------------------------------------ store (SQL)
Truthy(v) == v # NoneInt /\ v # 0
TruthyStr(v) == v # NoneStr /\ v # ""

\* the coordinate as it is, not rounded
Round3_exact(x) == x

\* Python round(x, 3) on a coordinate held in units of 0.0001 degree
Round3(x) == IF x = NoneInt THEN NoneInt ELSE ((x + 5) \div 10) * 10

DB == [media_files |-> media_files, exif_data |-> exif_data,
       geocode_cache |-> geocode_cache, media_seq |-> media_seq]

\* the dict _get_file_metadata builds from os.stat
FileData(p) ==
  [path |-> p, file_size |-> files[p].size, modified_time |-> files[p].mtime,
   is_favorited |-> 0, rating |-> 0]

\* COALESCE(NULLIF(excluded.x, 0), media_files.x)
CoalesceNullif0(excluded, old) == IF excluded # 0 THEN excluded ELSE old

last_scanned_value(db, fd, t) ==
  IF fd.path \notin DOMAIN db.media_files THEN t
  ELSE IF db.media_files[fd.path].modified_time # fd.modified_time THEN t
  ELSE db.media_files[fd.path].last_scanned

\* INTEGER PRIMARY KEY without AUTOINCREMENT: one more than the largest id in
\* the table
next_rowid_max_plus_1(db) ==
  LET ids == {db.media_files[q].id : q \in DOMAIN db.media_files}
  IN IF ids = {} THEN 1 ELSE (CHOOSE i \in ids : \A j \in ids : j <= i) + 1

\* id INTEGER PRIMARY KEY AUTOINCREMENT (cache_manager.py:66): one more than the
\* largest id the table ever held
next_rowid(db) == db.media_seq + 1

add_file(db, fd, t) ==
  LET p == fd.path
      present == p \in DOMAIN db.media_files
      old == db.media_files[p]
      row == IF present
             THEN [id |-> old.id,
                   file_size |-> fd.file_size,
                   modified_time |-> fd.modified_time,
                   last_scanned |-> last_scanned_value(db, fd, t),
                   is_favorited |-> CoalesceNullif0(fd.is_favorited, old.is_favorited),
                   rating |-> CoalesceNullif0(fd.rating, old.rating)]
             ELSE [id |-> next_rowid(db),
                   file_size |-> fd.file_size,
                   modified_time |-> fd.modified_time,
                   last_scanned |-> last_scanned_value(db, fd, t),
                   is_favorited |-> fd.is_favorited,
                   rating |-> fd.rating]
  IN [db EXCEPT !.media_files = (p :> row) @@ @,
                !.media_seq = IF present \/ row.id < @ THEN @ ELSE row.id]

\* the place columns add_exif_data writes: the existing ones when the
\* existing row has a truthy location_city, else NULL
preserved_place(db, file_id) ==
  IF file_id \in DOMAIN db.exif_data /\ TruthyStr(db.exif_data[file_id].location_city)
  THEN [location_name |-> db.exif_data[file_id].location_name,
        location_city |-> db.exif_data[file_id].location_city,
        location_state |-> db.exif_data[file_id].location_state,
        location_country |-> db.exif_data[file_id].location_country]
  ELSE NoPlace

add_exif_data(db, file_id, exif) ==
  IF ~exif.ok THEN db
  ELSE
    LET present == file_id \in DOMAIN db.exif_data
        old == db.exif_data[file_id]
        pl == preserved_place(db, file_id)
        row == [latitude |-> exif.latitude,
                longitude |-> exif.longitude,
                location_name |-> pl.location_name,
                location_city |-> pl.location_city,
                location_state |-> pl.location_state,
                location_country |-> pl.location_country,
                rating |-> IF exif.rating # NoneInt THEN exif.rating
                           ELSE IF present THEN old.rating ELSE NoneInt,
                is_favorited |-> IF present THEN old.is_favorited ELSE 0]
    IN [db EXCEPT !.exif_data = (file_id :> row) @@ @]

update_favorite(db, p, is_favorite) ==
  LET favorite_value == IF is_favorite THEN 1 ELSE 0
      rating_value == IF is_favorite THEN 5 ELSE 0
      m1 == IF p \in DOMAIN db.media_files
            THEN [db.media_files EXCEPT ![p].is_favorited = favorite_value,
                                        ![p].rating = rating_value]
            ELSE db.media_files
      e1 == IF p \in DOMAIN db.media_files /\ db.media_files[p].id \in DOMAIN db.exif_data
            THEN [db.exif_data EXCEPT ![db.media_files[p].id].is_favorited = favorite_value,
                                      ![db.media_files[p].id].rating = rating_value]
            ELSE db.exif_data
  IN [db EXCEPT !.media_files = m1, !.exif_data = e1]

has_geocoded_location(db, file_id) ==
  file_id \in DOMAIN db.exif_data /\ db.exif_data[file_id].location_city # NoneStr

get_geocode_cache(db, latitude, longitude) ==
  LET k == <<Round3(latitude), Round3(longitude)>>
  IN IF k \in DOMAIN db.geocode_cache
     THEN [ok |-> TRUE, place |-> db.geocode_cache[k]]
     ELSE GeoNone

add_geocode_cache(db, latitude, longitude, location_data) ==
  [db EXCEPT !.geocode_cache =
     (<<Round3(latitude), Round3(longitude)>> :> location_data) @@ @]

update_exif_location(db, file_id, location_data) ==
  IF file_id \in DOMAIN db.exif_data
  THEN [db EXCEPT !.exif_data[file_id].location_name = location_data.location_name,
                  !.exif_data[file_id].location_city = location_data.location_city,
                  !.exif_data[file_id].location_state = location_data.location_state,
                  !.exif_data[file_id].location_country = location_data.location_country]
  ELSE db

\* --------------------------------------------------- ingest (scanner.py)
\* Result of one per-file step: the store after it, whether files_added was
\* incremented, whether a store call raised, whether get_geocode_cache counted
\* a lookup, whether the external geocoder was called.  fail names the store call that raises (0: none):
\*   1 add_file   2 add_exif_data   3 update_favorite
\*   4 the first read of the geocoding stage   5 update_exif_location
StepResult(db, added, raised, lookup, called) ==
  [db |-> db, added |-> added, raised |-> raised, lookup |-> lookup, called |-> called]

\* scan_folder lines 228-260, entered with the store db3
folder_geocode(db3, file_id, exif, geo, geo_on, fail) ==
  IF fail = 4 THEN StepResult(db3, 1, TRUE, FALSE, FALSE)
  ELSE
    LET has_coords == Truthy(exif.latitude) /\ Truthy(exif.longitude)
        already_geocoded == has_geocoded_location(db3, file_id)
    IN IF geo_on /\ has_coords /\ ~already_geocoded
       THEN LET cached_location == get_geocode_cache(db3, exif.latitude, exif.longitude)
            IN IF cached_location.ok
               THEN IF fail = 5 THEN StepResult(db3, 1, TRUE, TRUE, FALSE)
                    ELSE StepResult(update_exif_location(db3, file_id, cached_location.place),
                                    1, FALSE, TRUE, FALSE)
               ELSE IF geo.ok
                    THEN LET db4 == add_geocode_cache(db3, exif.latitude, exif.longitude, geo.place)
                         IN IF fail = 5 THEN StepResult(db4, 1, TRUE, TRUE, TRUE)
                            ELSE StepResult(update_exif_location(db4, file_id, geo.place),
                                            1, FALSE, TRUE, TRUE)
                    ELSE StepResult(db3, 1, FALSE, TRUE, TRUE)
       ELSE StepResult(db3, 1, FALSE, FALSE, FALSE)

\* the rating scan_folder derives the favorite from: exif_data.get('rating') or 0
rating_or_0(exif) == IF exif.rating = NoneInt THEN 0 ELSE exif.rating

\* scan_folder lines 222-225: the favorite is always written, from the rating
folder_favorite(db2, p, exif) == update_favorite(db2, p, rating_or_0(exif) >= 5)

\* the body of scan_folder's file loop, lines 183-260
scan_folder_file(db, fd, exif, geo, t, geo_on, fail) ==
  IF fail = 1 THEN StepResult(db, 0, TRUE, FALSE, FALSE)
  ELSE
    LET db1 == add_file(db, fd, t)
        file_id == db1.media_files[fd.path].id
    IN IF exif.ok /\ file_id > 0
       THEN IF fail = 2 THEN StepResult(db1, 1, TRUE, FALSE, FALSE)
            ELSE LET db2 == add_exif_data(db1, file_id, exif)
                 IN IF fail = 3 THEN StepResult(db2, 1, TRUE, FALSE, FALSE)
                    ELSE folder_geocode(folder_favorite(db2, fd.path, exif),
                                        file_id, exif, geo, geo_on, fail)
       ELSE StepResult(db1, 1, FALSE, FALSE, FALSE)

\* scan_file lines 388-403, entered with the store db3
file_geocode(db3, file_id, exif, geo, geo_on, fail) ==
  IF geo_on /\ Truthy(exif.latitude) /\ Truthy(exif.longitude)
  THEN IF fail = 4 THEN StepResult(db3, 1, TRUE, FALSE, FALSE)
       ELSE
         LET cached == get_geocode_cache(db3, exif.latitude, exif.longitude)
             location_data == IF cached.ok THEN cached ELSE geo
             db4 == IF ~cached.ok /\ geo.ok
                    THEN add_geocode_cache(db3, exif.latitude, exif.longitude, geo.place)
                    ELSE db3
         IN IF location_data.ok
            THEN IF fail = 5 THEN StepResult(db4, 1, TRUE, TRUE, ~cached.ok)
                 ELSE StepResult(update_exif_location(db4, file_id, location_data.place),
                                 1, FALSE, TRUE, ~cached.ok)
            ELSE StepResult(db4, 1, FALSE, TRUE, ~cached.ok)
  ELSE StepResult(db3, 1, FALSE, FALSE, FALSE)

\* scan_file lines 383-386: the favorite is written only for a rating of 5
file_favorite(db2, p, exif) ==
  IF rating_or_0(exif) >= 5 THEN update_favorite(db2, p, TRUE) ELSE db2

\* scan_file lines 373-406 (after the file was found and its extractor ran)
scan_file(db, fd, exif, geo, t, geo_on, fail) ==
  IF fail = 1 THEN StepResult(db, 0, TRUE, FALSE, FALSE)
  ELSE
    LET db1 == add_file(db, fd, t)
        file_id == db1.media_files[fd.path].id
    IN IF file_id <= 0 THEN StepResult(db1, 1, FALSE, FALSE, FALSE)
       ELSE IF exif.ok
       THEN IF fail = 2 THEN StepResult(db1, 1, TRUE, FALSE, FALSE)
            ELSE LET db2 == add_exif_data(db1, file_id, exif)
                 IN IF fail = 3 /\ rating_or_0(exif) >= 5
                    THEN StepResult(db2, 1, TRUE, FALSE, FALSE)
                    ELSE file_geocode(file_favorite(db2, fd.path, exif),
                                      file_id, exif, geo, geo_on, fail)
       ELSE StepResult(db1, 1, FALSE, FALSE, FALSE)

\* ------------------------------------------------------ ingest: the steps
NoOp == [kind |-> "none", path |-> 0, exif |-> ExifNone, geo |-> GeoNone,
         mtime |-> 0, size |-> 0]

Op(kind, p, exif, geo) ==
  [kind |-> kind, path |-> p, exif |-> exif, geo |-> geo,
   mtime |-> files[p].mtime, size |-> files[p].size]

SetStore(db) ==
  /\ media_files' = db.media_files
  /\ exif_data' = db.exif_data
  /\ geocode_cache' = db.geocode_cache
  /\ media_seq' = db.media_seq

\* the store and the in-memory lookup counters after a per-file step
SetStep(res) ==
  /\ SetStore(res.db)
  /\ stats_dirty' = (stats_dirty \/ res.lookup)

\* time passes between two operations; the run ends at MaxTime
Tick == /\ now < MaxTime
        /\ now' = now + 1

\* one file of a full walk
WalkIngest(p) ==
  \E inp \in IngestInputs :
    /\ Tick
    /\ SetStep(scan_folder_file(DB, FileData(p), inp[1], inp[2], now', enable_geocoding, 0))
    /\ lastOp' = Op("scan_folder", p, inp[1], inp[2])
    /\ UNCHANGED <<enable_geocoding, files, walkVars, otherVars>>

\* the single-file ingest the watcher drives
FileIngest(p) ==
  \E inp \in IngestInputs :
    /\ Tick
    /\ SetStep(scan_file(DB, FileData(p), inp[1], inp[2], now', enable_geocoding, 0))
    /\ lastOp' = Op("scan_file", p, inp[1], inp[2])
    /\ UNCHANGED <<enable_geocoding, files, walkVars, otherVars>>

\* handle_mark_favorite: the explicit favoriteUpdate
MarkFavorite(p) ==
  \E b \in BOOLEAN :
    /\ Tick
    /\ SetStore(update_favorite(DB, p, b))
    /\ UNCHANGED stats_dirty
    /\ lastOp' = Op(IF b THEN "favorite" ELSE "unfavorite", p, ExifNone, GeoNone)
    /\ UNCHANGED <<enable_geocoding, files, walkVars, otherVars>>

\* the file's content changes on disk
TouchFile(p) ==
  \E m \in 1..2, sz \in 1..2 :
    /\ Tick
    /\ <<m, sz>> # <<files[p].mtime, files[p].size>>
    /\ files' = [files EXCEPT ![p] = [mtime |-> m, size |-> sz]]
    /\ lastOp' = [NoOp EXCEPT !.kind = "touch", !.path = p]
    /\ UNCHANGED <<storeVars, stats_dirty, enable_geocoding, walkVars, otherVars>>

\* ------------------------------------------------- watcher (watcher.py)
\* The observer thread calls on_created/on_modified/on_deleted/on_moved; each
\* hands a closure to the event loop with call_soon_threadsafe.  The loop runs
\* the closures in hand-off order.  _process_event_batches is one task; it is
\* suspended at a sleep or inside the handling of the head of its batch, and
\* the code between two awaits runs without interleaving.
EmptyFn == [x \in {} |-> 0]

Without(f, S) == [q \in DOMAIN f \ S |-> f[q]]

Min(a, b) == IF a < b THEN a ELSE b

WatchPaths == 1..NumWatchPaths
\* a path whose suffix is not in IMAGE_EXTENSIONS or VIDEO_EXTENSIONS
OtherFile == 0
\* a directory whose name ends in a media suffix
MediaNamedDir == NumWatchPaths + 1
EventPaths == WatchPaths \cup {OtherFile, MediaNamedDir}

\* the suffix test: it does not look at what the path is
is_media_file(p) == p \in WatchPaths \cup {MediaNamedDir}

\* event.is_directory of an event on path p
IsDirectory(p) == p = MediaNamedDir

\* the items, latest timestamp first
RECURSIVE SortedItems_newest_first(_)
SortedItems_newest_first(f) ==
  IF DOMAIN f = {} THEN <<>>
  ELSE LET p == CHOOSE x \in DOMAIN f : \A q \in DOMAIN f : f[x] >= f[q]
       IN <<<<p, f[p]>>>> \o SortedItems_newest_first(Without(f, {p}))

\* sorted(d.items(), key=lambda x: x[1])
RECURSIVE SortedItems(_)
SortedItems(f) ==
  IF DOMAIN f = {} THEN <<>>
  ELSE LET p == CHOOSE x \in DOMAIN f : \A q \in DOMAIN f : f[x] <= f[q]
       IN <<<<p, f[p]>>>> \o SortedItems(Without(f, {p}))

Prefix(sq, n) == SubSeq(sq, 1, Min(n, Len(sq)))

ItemPaths(batch) == {batch[i][1] : i \in 1..Len(batch)}

\* list(self._pending_deleted)[:MAX_BATCH_SIZE]: the order of a set's list is
\* not fixed by the code
DeletedBatches(S) ==
  {b \in [1..Min(MaxBatchSize, Cardinality(S)) -> S \X {0}] :
     \A i, j \in DOMAIN b : i # j => b[i] # b[j]}

\* DELETE FROM media_files WHERE path = ?, with ON DELETE CASCADE on exif_data
remove_file(db, p) ==
  IF p \in DOMAIN db.media_files
  THEN [db EXCEPT !.media_files = Without(@, {p}),
                  !.exif_data = Without(@, {db.media_files[p].id})]
  ELSE db

NoScen == [on |-> FALSE, ts |-> 0, taken |-> FALSE, mods |-> 0]

IdleDrain == [pc |-> "idle", batch |-> <<>>]

InitWatch ==
  /\ observer = "none"
  /\ threadq = <<>>
  /\ pending_new = EmptyFn
  /\ pending_modified = EmptyFn
  /\ pending_deleted = {}
  /\ processor_task = "none"
  /\ is_processing = FALSE
  /\ drain = IdleDrain
  /\ evclock = 0
  /\ emitted = 0
  /\ handled = <<>>
  /\ scen = [p \in WatchPaths |-> NoScen]
  /\ stopped = FALSE

\* a listing that has not been started
InitPage ==
  /\ catalog = <<>>
  /\ order_by = "date_taken"
  /\ order_direction = "desc"
  /\ count = 1
  /\ after_value = <<0, 0>>
  /\ after_id = NoneInt
  /\ collected = <<>>
  /\ page_calls = 0
  /\ exhausted = FALSE

\* GeocodeService.__init__; the loop's clock has passed the first interval
\* ------------------------------------ schema and migrations (cache_manager.py)
\* the columns of CREATE TABLE IF NOT EXISTS exif_data, in order
CreateColumns ==
  <<"file_id", "camera_make", "camera_model", "date_taken", "latitude", "longitude",
    "altitude", "location_name", "location_city", "location_state", "location_country",
    "rating", "is_favorited", "iso", "aperture", "shutter_speed", "focal_length",
    "focal_length_35mm", "exposure_compensation", "metering_mode", "white_balance",
    "flash">>

\* new_columns of _run_migrations, in the dict's order
new_columns ==
  <<<<"altitude", "REAL">>, <<"focal_length_35mm", "INTEGER">>,
    <<"exposure_compensation", "TEXT">>, <<"metering_mode", "TEXT">>,
    <<"white_balance", "TEXT">>, <<"burst_favorites", "TEXT">>,
    <<"burst_count", "INTEGER">>>>

allowed_col_names == {new_columns[i][1] : i \in DOMAIN new_columns}
allowed_col_types == {"REAL", "INTEGER", "TEXT"}

ColumnSet(cols) == {cols[i] : i \in DOMAIN cols}

\* the table after every migration
MigratedColumns == CreateColumns \o <<"burst_favorites", "burst_count">>

NoStats == [cache_hits |-> NoneInt, cache_misses |-> NoneInt]

MigratedSchema ==
  [table |-> TRUE, exif_columns |-> MigratedColumns,
   geocode_stats |-> [cache_hits |-> 0, cache_misses |-> 0],
   runs |-> 0, added |-> <<>>, raised |-> FALSE]

\* every column is added
column_missing_always(col_name, column_names) == TRUE

\* 'if col_name not in column_names'
column_missing(col_name, column_names) == col_name \notin ColumnSet(column_names)

\* the loop of _run_migrations from entry i on: column_names is the list read
\* by PRAGMA table_info before the loop, cols the table as altered so far;
\* ALTER TABLE ADD COLUMN raises on a column name the table already has
RECURSIVE add_columns(_, _, _, _)
add_columns(i, column_names, cols, added) ==
  IF i > Len(new_columns) THEN [cols |-> cols, added |-> added, raised |-> FALSE]
  ELSE LET col_name == new_columns[i][1]
           col_type == new_columns[i][2]
       IN IF ~column_missing(col_name, column_names)
          THEN add_columns(i + 1, column_names, cols, added)
          ELSE IF col_name \notin allowed_col_names \/ col_type \notin allowed_col_types
          THEN add_columns(i + 1, column_names, cols, added)
          ELSE IF col_name \in ColumnSet(cols)
          THEN [cols |-> cols, added |-> added, raised |-> TRUE]
          ELSE add_columns(i + 1, column_names, Append(cols, col_name),
                           Append(added, new_columns[i]))

\* _create_schema: CREATE TABLE IF NOT EXISTS, INSERT OR IGNORE of the
\* geocode_stats row, then _run_migrations
create_schema(sc) ==
  LET cols == IF sc.table THEN sc.exif_columns ELSE CreateColumns
      stats == IF sc.geocode_stats = NoStats
               THEN [cache_hits |-> 0, cache_misses |-> 0] ELSE sc.geocode_stats
      res == add_columns(1, cols, cols, <<>>)
  IN [table |-> TRUE, exif_columns |-> res.cols, geocode_stats |-> stats,
      runs |-> sc.runs + 1, added |-> res.added, raised |-> res.raised]

\* CacheManager.async_setup on the database file as it is
AsyncSetup ==
  /\ schema.runs < MaxSetups
  /\ schema' = create_schema(schema)
  /\ UNCHANGED <<storeVars, stats_dirty, ingestVars, walkVars, watchVars, pageVars,
                 queryVars, serviceVars, orphaned_tasks, geocode_counters>>

\* cache_manager.py:24-26, no _flush_geocode_stats call under way
IdleCounters ==
  [cache_hits |-> 0, cache_misses |-> 0, counter |-> 0,
   flush |-> [c \in 1..NumCallers |-> [pc |-> "idle", hits |-> 0, misses |-> 0, walk |-> FALSE]],
   walk_done |-> FALSE]

\* a geocode lookup counted into the geocode_stats row
CountLookup ==
  /\ schema.runs > 0 /\ ~schema.raised
  /\ \E hit \in BOOLEAN :
       /\ schema.geocode_stats.cache_hits + schema.geocode_stats.cache_misses < MaxCounted
       /\ schema' = [schema EXCEPT
                       !.geocode_stats.cache_hits = IF hit THEN @ + 1 ELSE @,
                       !.geocode_stats.cache_misses = IF hit THEN @ ELSE @ + 1]
  /\ UNCHANGED <<storeVars, stats_dirty, ingestVars, walkVars, watchVars, pageVars,
                 queryVars, serviceVars, orphaned_tasks, geocode_counters>>

IdleGeocoder ==
  [last_request_time |-> 0, time |-> RATE_LIMIT_DELAY,
   callers |-> [c \in 1..NumCallers |-> [pc |-> "idle", wake |-> 0]], sent |-> <<>>]

\* no read-side call and no service call has been made
InitQuery ==
  /\ query = [op |-> "none"]
  /\ answer = [done |-> FALSE, rows |-> <<>>]
  /\ lookups = <<>>
  /\ geocoder = IdleGeocoder
  /\ removal = [n |-> 0, op |-> "none", path |-> 0, returned |-> FALSE]
  /\ on_disk = [present |-> Paths, epoch |-> 0]
  /\ pending_exif = [pc |-> "idle"]
  /\ schema = MigratedSchema
  /\ orphaned_tasks = 0
  /\ geocode_counters = IdleCounters

InitStore ==
  /\ stats_dirty = FALSE
  /\ media_files = <<>>
  /\ exif_data = <<>>
  /\ geocode_cache = <<>>
  /\ media_seq = 0

IdleWalk == [pc |-> "idle", scan_id |-> 0, files_added |-> 0, todo |-> <<>>,
             upserted |-> 0, inserted |-> 0, terminal |-> 0, scan_error_count |-> 0]

InitWalk ==
  /\ scan_history = <<>>
  /\ dbOpen = TRUE
  /\ is_scanning = FALSE
  /\ walk = [w \in Walkers |-> IdleWalk]
  /\ calls = 0
  /\ rejected = 0
  /\ finished = <<>>
  /\ escaped = {}

InitIngest ==
  /\ enable_geocoding \in BOOLEAN
  /\ files = [p \in Paths \cup WatchPaths \cup WalkFiles \cup {JunkFile} |->
                [mtime |-> 1, size |-> 1]]
  /\ now = 0
  /\ lastOp = NoOp

Init ==
  /\ InitStore
  /\ InitWalk
  /\ InitWatch
  /\ InitPage
  /\ InitQuery
  /\ InitIngest

Next ==
  \/ \E p \in IngestPaths : WalkIngest(p)
  \/ \E p \in IngestPaths : FileIngest(p)
  \/ \E p \in IngestPaths : MarkFavorite(p)
  \/ \E p \in IngestPaths : TouchFile(p)

Spec == Init /\ [][Next]_vars

\* the database file found at startup: none, or one written by an earlier
\* version, whose exif_data lacks some of the columns added since
SchemaInit ==
  /\ InitStore /\ InitWalk /\ InitWatch /\ InitPage /\ InitIngest
  /\ query = [op |-> "none"]
  /\ answer = [done |-> FALSE, rows |-> <<>>]
  /\ lookups = <<>>
  /\ geocoder = IdleGeocoder
  /\ removal = [n |-> 0, op |-> "none", path |-> 0, returned |-> FALSE]
  /\ on_disk = [present |-> Paths, epoch |-> 0]
  /\ pending_exif = [pc |-> "idle"]
  /\ orphaned_tasks = 0
  /\ geocode_counters = IdleCounters
  /\ \/ schema = [MigratedSchema EXCEPT !.table = FALSE, !.exif_columns = <<>>,
                                        !.geocode_stats = NoStats]
     \/ \E lacking \in SUBSET allowed_col_names :
          schema = [MigratedSchema EXCEPT
                      !.exif_columns = SelectSeq(MigratedColumns,
                                                 LAMBDA c : c \notin lacking)]

SpecSchema == SchemaInit /\ [][AsyncSetup \/ CountLookup]_vars

\* ------------------------------------------------- full walk (scanner.py)
\* A store call raises "no active connection" once the connection is closed;
\* while it is open it succeeds or raises another error (locked, disk I/O).
\* GEOCODE_STATS_BATCH_SIZE, which get_geocode_cache imports from const.py, is
\* not defined in the const.py at hand; lookups are modelled as working and
\* the threshold flush inside get_geocode_cache is left out.
StoreOutcomes == IF dbOpen THEN {"ok", "other"} ELSE {"closed"}

\* the store call of a per-file step that raises (0: none)
FailPoints == 0..5
StepFailures == IF dbOpen THEN FailPoints ELSE {1}

\* the inputs of a walk's per-file step
WalkInputs ==
  {<<ExifNone, GeoNone>>,
   <<[ok |-> TRUE, rating |-> NoneInt, latitude |-> 407123, longitude |-> 740060],
     [ok |-> TRUE, place |-> PlaceA]>>}

record_scan(sh) ==
  (Len(sh) + 1 :> [status |-> "running", files_added |-> "0", files_updated |-> "0"]) @@ sh

\* UPDATE scan_history SET files_added, files_updated, status WHERE id = scan_id
update_scan(sh, scan_id, files_added, files_updated, status) ==
  IF scan_id \in DOMAIN sh
  THEN [sh EXCEPT ![scan_id] = [status |-> status,
                                files_added |-> ToString(files_added),
                                files_updated |-> files_updated]]
  ELSE sh

\* scanner.py calls update_scan(scan_id, files_added, "<status>"): the third
\* positional parameter is files_updated, and status keeps its default
scanner_update_scan(sh, scan_id, files_added, word) ==
  update_scan(sh, scan_id, files_added, word, "completed")

\* a scanner that starts a walk whatever the flag says
scan_accepted_always(flag) == TRUE

\* line 142: the request is accepted when no walk is in progress
scan_accepted(flag) == ~flag

\* the walk of w ends: finally resets the flag, the locals are gone
\* the flag stays as it is when scan_folder is left
is_scanning_on_exit_kept(flag) == flag

\* line 325, the finally block of scan_folder
is_scanning_on_exit(flag) == FALSE

EndWalk(w, outcome, wk) ==
  /\ is_scanning' = is_scanning_on_exit(is_scanning)
  /\ walk' = [walk EXCEPT ![w] = IdleWalk]
  /\ finished' = Append(finished,
       [scan_id |-> wk.scan_id, outcome |-> outcome, inserted |-> wk.inserted,
        terminal |-> wk.terminal, upserted |-> wk.upserted, left |-> Len(wk.todo)])

\* scan_folder lines 142-147
ScanRequest(w) ==
  /\ walk[w].pc = "idle"
  /\ calls < MaxCalls
  /\ calls' = calls + 1
  /\ IF scan_accepted(is_scanning)
     THEN /\ is_scanning' = TRUE
          /\ walk' = [walk EXCEPT ![w] = [IdleWalk EXCEPT !.pc = "record"]]
          /\ UNCHANGED rejected
     ELSE /\ rejected' = rejected + 1
          /\ UNCHANGED <<is_scanning, walk>>
  /\ UNCHANGED <<storeVars, stats_dirty, ingestVars, otherVars, scan_history, dbOpen, finished, escaped>>

\* scan_folder line 153.  When record_scan raises, the handler at line 316
\* reads scan_id, which was never bound: UnboundLocalError leaves scan_folder.
\* The INSERT may have been committed before the failing call (the SELECT of
\* last_insert_rowid).
RecordScan(w) ==
  /\ walk[w].pc = "record"
  /\ \E out \in StoreOutcomes, committed \in BOOLEAN :
       IF out = "ok"
       THEN /\ committed
            /\ scan_history' = record_scan(scan_history)
            /\ walk' = [walk EXCEPT ![w].pc = "walkdir",
                                    ![w].scan_id = Len(scan_history) + 1,
                                    ![w].inserted = 1]
            /\ UNCHANGED <<is_scanning, finished, escaped>>
       ELSE /\ committed => out = "other"
            /\ scan_history' = IF committed THEN record_scan(scan_history) ELSE scan_history
            /\ escaped' = escaped \cup {"scan_folder"}
            /\ EndWalk(w, "raised", [walk[w] EXCEPT !.inserted = IF committed THEN 1 ELSE 0])
  /\ UNCHANGED <<storeVars, stats_dirty, ingestVars, otherVars, dbOpen, calls, rejected>>

\* no directory is pruned from the walk
in_skipped_dir_never(p) == FALSE

\* _walk_directory line 100: os.walk does not descend into a directory named
\* _Junk or _Edit
in_skipped_dir(p) == p = JunkFile

\* scan_folder lines 165-179: the list of the media files found under the
\* folder is collected before the loop
WalkDirectory(w) ==
  /\ walk[w].pc = "walkdir"
  /\ LET found == {p \in on_disk.present : ~in_skipped_dir(p)}
         media_files_list == CHOOSE s \in [1..Cardinality(found) -> found] :
                               \A a, b \in DOMAIN s : a < b => s[a] < s[b]
     IN walk' = [walk EXCEPT ![w].pc = "files", ![w].todo = media_files_list]
  /\ UNCHANGED <<storeVars, stats_dirty, ingestVars, otherVars, scan_history, dbOpen, is_scanning,
                 calls, rejected, finished, escaped>>

\* no error is taken for a closed connection
no_active_connection_never(open) == FALSE

\* every error is taken for a closed connection
no_active_connection_always(open) == TRUE

\* line 271, '"no active connection" in str(err)': the message of the error
\* that a call on the closed aiosqlite connection raises
no_active_connection(open) == ~open

\* one iteration of the file loop, lines 182-294
FileStep(w) ==
  /\ walk[w].pc = "files"
  /\ walk[w].todo # <<>>
  /\ \E inp \in WalkInputs, fail \in StepFailures :
       LET p == Head(walk[w].todo)
           \* the extractors return None for a file that is gone
           \* (exif_parser.py:129-138); the metadata of the list is used as collected
           exif == IF p \in on_disk.present THEN inp[1] ELSE ExifNone
           res == scan_folder_file(DB, FileData(p), exif, inp[2], now, enable_geocoding, fail)
           closed == res.raised /\ no_active_connection(dbOpen)
           wk == [walk[w] EXCEPT !.files_added = @ + res.added,
                                 !.upserted = @ + res.added,
                                 !.todo = Tail(@),
                                 !.scan_error_count =
                                    @ + (IF res.raised /\ ~closed THEN 1 ELSE 0)]
       IN /\ SetStep(res)
          /\ IF closed
             THEN \* lines 271-284: update_scan(aborted) is tried on the closed store
                  /\ EndWalk(w, "aborted", wk)
             ELSE /\ walk' = [walk EXCEPT ![w] = wk]
                  /\ UNCHANGED <<is_scanning, finished>>
  /\ UNCHANGED <<ingestVars, otherVars, scan_history, dbOpen, calls, rejected, escaped>>

\* the handler at lines 305-322, entered with the locals wk
FailedWalk(w, wk) ==
  \E out \in StoreOutcomes :
    IF out = "ok"
    THEN /\ scan_history' = scanner_update_scan(scan_history, wk.scan_id, wk.files_added, "failed")
         /\ EndWalk(w, "failed", [wk EXCEPT !.terminal = @ + 1])
    ELSE /\ scan_history' = scan_history
         /\ EndWalk(w, "failed", wk)

\* line 297, after the loop
FinishScan(w) ==
  /\ walk[w].pc = "files"
  /\ walk[w].todo = <<>>
  /\ \E out \in StoreOutcomes :
       IF out = "ok"
       THEN /\ scan_history' = scanner_update_scan(scan_history, walk[w].scan_id,
                                                   walk[w].files_added, "completed")
            /\ walk' = [walk EXCEPT ![w].pc = "flush", ![w].terminal = @ + 1]
            /\ UNCHANGED <<is_scanning, finished>>
       ELSE FailedWalk(w, walk[w])
  /\ UNCHANGED <<storeVars, stats_dirty, ingestVars, otherVars, dbOpen, calls, rejected, escaped>>

\* line 300: _flush_geocode_stats writes only when a counter is non-zero
FlushStats(w) ==
  /\ walk[w].pc = "flush"
  /\ IF stats_dirty
     THEN \E out \in StoreOutcomes :
            IF out = "ok"
            THEN /\ stats_dirty' = FALSE
                 /\ scan_history' = scan_history
                 /\ EndWalk(w, "completed", walk[w])
            ELSE /\ stats_dirty' = stats_dirty
                 /\ FailedWalk(w, walk[w])
     ELSE /\ UNCHANGED <<stats_dirty, scan_history>>
          /\ EndWalk(w, "completed", walk[w])
  /\ UNCHANGED <<storeVars, ingestVars, otherVars, dbOpen, calls, rejected, escaped>>

\* async_unload_entry: cache_manager.close()
CloseStore ==
  /\ dbOpen
  /\ dbOpen' = FALSE
  /\ UNCHANGED <<storeVars, stats_dirty, ingestVars, otherVars, scan_history,
                 is_scanning, walk, calls, rejected, finished, escaped>>

WalkNext ==
  \/ \E w \in Walkers : ScanRequest(w)
  \/ \E w \in Walkers : RecordScan(w)
  \/ \E w \in Walkers : WalkDirectory(w)
  \/ \E w \in Walkers : FileStep(w)
  \/ \E w \in Walkers : FinishScan(w)
  \/ \E w \in Walkers : FlushStats(w)
  \/ CloseStore

SpecWalk == Init /\ [][WalkNext]_vars

\* The task running scan_folder is cancelled while the walk is suspended in
\* one of its awaits: CancelledError is no Exception, so neither the per-file
\* handler (line 269) nor the handler at line 305 takes it, no terminal update
\* is made, the finally block runs and CancelledError leaves scan_folder.
CancelWalk(w) ==
  /\ walk[w].pc # "idle"
  /\ is_scanning' = is_scanning_on_exit(is_scanning)
  /\ walk' = [walk EXCEPT ![w] = IdleWalk]
  /\ escaped' = escaped \cup {"CancelledError"}
  /\ UNCHANGED <<storeVars, stats_dirty, ingestVars, otherVars, scan_history, dbOpen,
                 calls, rejected, finished>>

SpecWalkCancel == Init /\ [][WalkNext \/ \E w \in Walkers : CancelWalk(w)]_vars

\* a media file is deleted from the folder while no walk is running
Unlink(p) ==
  /\ ~is_scanning
  /\ p \in on_disk.present
  /\ on_disk' = [present |-> on_disk.present \ {p}, epoch |-> Len(finished)]
  /\ UNCHANGED <<storeVars, stats_dirty, ingestVars, walkVars, watchVars, pageVars,
                 queryVars, lookups, geocoder, removal, pending_exif, setupVars>>

SpecReconcile == Init /\ [][WalkNext \/ \E p \in Paths : Unlink(p)]_vars

\* one scanner walking a folder of NumWalkFiles files, until a walk has ended
WalkFilesInit ==
  /\ InitStore /\ InitWalk /\ InitWatch /\ InitPage /\ InitIngest
  /\ query = [op |-> "none"]
  /\ answer = [done |-> FALSE, rows |-> <<>>]
  /\ lookups = <<>>
  /\ geocoder = IdleGeocoder
  /\ removal = [n |-> 0, op |-> "none", path |-> 0, returned |-> FALSE]
  /\ on_disk = [present |-> WalkFiles, epoch |-> 0]
  /\ pending_exif = [pc |-> "idle"]
  /\ schema = MigratedSchema
  /\ orphaned_tasks = 0
  /\ geocode_counters = IdleCounters

SpecWalkFiles ==
  WalkFilesInit /\ [][\/ (finished = <<>> /\ ScanRequest(1))
                      \/ RecordScan(1) \/ WalkDirectory(1)
                      \/ FileStep(1) \/ FinishScan(1) \/ FlushStats(1)
                      \/ CloseStore]_vars

\* A file of the scanned folder is deleted while the watcher runs: on_deleted
\* and its closure put the path in _pending_deleted (watcher.py:92-109).
FileDeleted(p) ==
  /\ p \in on_disk.present
  /\ on_disk' = [present |-> on_disk.present \ {p}, epoch |-> Len(finished)]
  /\ pending_deleted' = pending_deleted \cup {p}
  /\ UNCHANGED <<storeVars, stats_dirty, ingestVars, walkVars, pageVars, queryVars,
                 lookups, geocoder, removal, pending_exif, setupVars,
                 observer, threadq, pending_new, pending_modified, processor_task,
                 is_processing, drain, evclock, emitted, handled, scen, stopped>>

\* The drain loop takes p from _pending_deleted and _handle_deleted_file
\* removes its record (watcher.py:159-166, 228-234), the store call succeeding.
HandleDeletedFile(p) ==
  /\ p \in pending_deleted
  /\ pending_deleted' = pending_deleted \ {p}
  /\ SetStore(remove_file(DB, p))
  /\ handled' = Append(handled, [kind |-> "deleted", path |-> p])
  /\ UNCHANGED <<stats_dirty, ingestVars, walkVars, pageVars, queryVars,
                 serviceVars, setupVars,
                 observer, threadq, pending_new, pending_modified, processor_task,
                 is_processing, drain, evclock, emitted, scen, stopped>>

\* one full walk with the watcher handling deletions under the same folder
SpecWalkWatch ==
  WalkFilesInit /\ [][\/ (finished = <<>> /\ ScanRequest(1))
                      \/ RecordScan(1) \/ WalkDirectory(1)
                      \/ FileStep(1) \/ FinishScan(1) \/ FlushStats(1)
                      \/ \E p \in WalkFiles : FileDeleted(p)
                      \/ \E p \in WalkFiles : HandleDeletedFile(p)]_vars

\* A media file appears under the watched folder (created, or the destination
\* of a move): the closure of on_created / on_moved puts its path in
\* _pending_new (watcher.py:57-73, 111-135); the handlers test is_directory and
\* the suffix only.
FileQueued(p) ==
  /\ p \in on_disk.present
  /\ p \notin DOMAIN pending_new
  /\ emitted < MaxEvents
  /\ emitted' = emitted + 1
  /\ pending_new' = (p :> evclock) @@ pending_new
  /\ UNCHANGED <<storeVars, stats_dirty, ingestVars, walkVars, pageVars, queryVars,
                 serviceVars, setupVars,
                 observer, threadq, pending_modified, pending_deleted, processor_task,
                 is_processing, drain, evclock, handled, scen, stopped>>

\* The drain loop takes p from _pending_new and _handle_new_file calls
\* scan_file (watcher.py:168-178, 204-214): the file exists and has a media
\* suffix, so scan_file ingests it (scanner.py:336-348).
HandleNewFile(p) ==
  /\ p \in DOMAIN pending_new
  /\ pending_new' = Without(pending_new, {p})
  /\ \E inp \in WalkInputs, fail \in StepFailures :
       SetStep(scan_file(DB, FileData(p), inp[1], inp[2], now, enable_geocoding, fail))
  /\ handled' = Append(handled, [kind |-> "new", path |-> p])
  /\ UNCHANGED <<ingestVars, walkVars, pageVars, queryVars,
                 serviceVars, setupVars,
                 observer, threadq, pending_modified, pending_deleted, processor_task,
                 is_processing, drain, evclock, emitted, scen, stopped>>

\* the folder holds a file under _Junk besides its other files
QuarantineInit ==
  /\ InitStore /\ InitWalk /\ InitWatch /\ InitPage /\ InitIngest
  /\ query = [op |-> "none"]
  /\ answer = [done |-> FALSE, rows |-> <<>>]
  /\ lookups = <<>>
  /\ geocoder = IdleGeocoder
  /\ removal = [n |-> 0, op |-> "none", path |-> 0, returned |-> FALSE]
  /\ on_disk = [present |-> WalkFiles \cup {JunkFile}, epoch |-> 0]
  /\ pending_exif = [pc |-> "idle"]
  /\ schema = MigratedSchema
  /\ orphaned_tasks = 0
  /\ geocode_counters = IdleCounters

\* one full walk and the watcher's ingest of new files under the same folder
SpecQuarantine ==
  QuarantineInit /\ [][\/ (finished = <<>> /\ ScanRequest(1))
                       \/ RecordScan(1) \/ WalkDirectory(1)
                       \/ FileStep(1) \/ FinishScan(1) \/ FlushStats(1)
                       \/ \E p \in WalkFiles \cup {JunkFile} : FileQueued(p)
                       \/ \E p \in WalkFiles \cup {JunkFile} : HandleNewFile(p)]_vars

\* ------------------------------------- reverse_geocode (geocoding.py:74-167)
\* what one request ends with: the HTTP status, asyncio.TimeoutError, or any
\* other exception (connection error, invalid JSON)
Responses == {"200", "429", "500", "timeout", "error"}

IdleRetry ==
  [pc |-> "idle", attempt |-> 0, sent |-> 0, responses |-> <<>>, waits |-> <<>>,
   result |-> GeoNone, latitude |-> 0, calls |-> 0]

\* every response but 200 is retried
should_retry_unless_200(status, attempt) == status # "200"

\* lines 128-135 and 143-147: 'continue' after a 429, and after a timeout that
\* is not on the last attempt
should_retry(status, attempt) ==
  status = "429" \/ (status = "timeout" /\ attempt < max_retries - 1)

\* scanner.py:252, the call
ReverseGeocode ==
  /\ geocoder.pc = "idle"
  /\ geocoder.calls < MaxLookups
  /\ \E lat \in Latitudes :
       geocoder' = [IdleRetry EXCEPT !.pc = "request", !.latitude = lat,
                                     !.calls = geocoder.calls + 1]
  /\ UNCHANGED <<storeVars, stats_dirty, ingestVars, walkVars, watchVars, pageVars,
                 queryVars, lookups, removal, on_disk, pending_exif, setupVars>>

\* one pass of the for loop up to its return, continue or sleep: the request
\* is sent after _rate_limit and ends within the 10 s client timeout
RequestEnds ==
  /\ geocoder.pc = "request"
  /\ \E status \in Responses :
       LET g == [geocoder EXCEPT !.sent = @ + 1, !.responses = Append(@, status)]
       IN geocoder' =
            IF status = "200"
            THEN [g EXCEPT !.pc = "returned", !.result = [ok |-> TRUE, place |-> PlaceA]]
            ELSE IF should_retry(status, geocoder.attempt)
            THEN [g EXCEPT !.pc = "backoff", !.waits = Append(@, 2 ^ geocoder.attempt)]
            ELSE [g EXCEPT !.pc = "returned", !.result = GeoNone]
  /\ UNCHANGED <<storeVars, stats_dirty, ingestVars, walkVars, watchVars, pageVars,
                 queryVars, lookups, removal, on_disk, pending_exif, setupVars>>

\* asyncio.sleep(2 ** attempt) is over: the next pass, or 'return None' after
\* the loop (line 153)
BackoffEnds ==
  /\ geocoder.pc = "backoff"
  /\ geocoder' = IF geocoder.attempt + 1 < max_retries
                 THEN [geocoder EXCEPT !.pc = "request", !.attempt = @ + 1]
                 ELSE [geocoder EXCEPT !.pc = "returned", !.attempt = @ + 1,
                                       !.result = GeoNone]
  /\ UNCHANGED <<storeVars, stats_dirty, ingestVars, walkVars, watchVars, pageVars,
                 queryVars, lookups, removal, on_disk, pending_exif, setupVars>>

\* scanner.py:254-258: 'if location_data:' add_geocode_cache
StoreLocation ==
  /\ geocoder.pc = "returned"
  /\ IF geocoder.result.ok
     THEN SetStore(add_geocode_cache(DB, geocoder.latitude, 740060, geocoder.result.place))
     ELSE UNCHANGED storeVars
  /\ geocoder' = [geocoder EXCEPT !.pc = "idle"]
  /\ UNCHANGED <<stats_dirty, ingestVars, walkVars, watchVars, pageVars,
                 queryVars, lookups, removal, on_disk, pending_exif, setupVars>>

RetryInit ==
  /\ InitStore /\ InitWalk /\ InitWatch /\ InitPage /\ InitIngest
  /\ query = [op |-> "none"]
  /\ answer = [done |-> FALSE, rows |-> <<>>]
  /\ lookups = <<>>
  /\ geocoder = IdleRetry
  /\ removal = [n |-> 0, op |-> "none", path |-> 0, returned |-> FALSE]
  /\ on_disk = [present |-> Paths, epoch |-> 0]
  /\ pending_exif = [pc |-> "idle"]
  /\ schema = MigratedSchema
  /\ orphaned_tasks = 0
  /\ geocode_counters = IdleCounters

RetryNext == ReverseGeocode \/ RequestEnds \/ BackoffEnds \/ StoreLocation

\* the event loop brings every request and every sleep to its end
SpecRetry == RetryInit /\ [][RetryNext]_vars /\ WF_vars(RequestEnds \/ BackoffEnds)

\* ------------------- geocode hit/miss counters (cache_manager.py:594-692)
\* the number of lookups between two periodic flushes
GEOCODE_STATS_BATCH_SIZE == 2

StatsFrame ==
  UNCHANGED <<storeVars, ingestVars, walkVars, watchVars, pageVars, queryVars,
              geocoder, removal, on_disk, pending_exif, orphaned_tasks>>

\* _flush_geocode_stats up to its first await, called by task c: when a
\* counter is non-zero the UPDATE adds the two counters as they are now to the
\* geocode_stats row; the reset follows the awaits
flush_geocode_stats(gc, c, at_walk_end) ==
  IF gc.cache_hits > 0 \/ gc.cache_misses > 0
  THEN /\ schema' = [schema EXCEPT !.geocode_stats.cache_hits = @ + gc.cache_hits,
                                   !.geocode_stats.cache_misses = @ + gc.cache_misses]
       /\ geocode_counters' =
            [gc EXCEPT !.flush[c] = [pc |-> "flushing", hits |-> gc.cache_hits,
                                     misses |-> gc.cache_misses, walk |-> at_walk_end]]
  ELSE /\ schema' = schema
       /\ geocode_counters' = [gc EXCEPT !.walk_done = @ \/ at_walk_end]

\* get_geocode_cache by task c, from the row fetched to the return or to the
\* await inside the flush (lines 612-636)
GeocodeLookup(c) ==
  /\ geocode_counters.flush[c].pc = "idle"
  /\ Len(lookups) < MaxLookups
  /\ \E hit \in BOOLEAN :
       LET gc == [geocode_counters EXCEPT
                    !.cache_hits = IF hit THEN @ + 1 ELSE @,
                    !.cache_misses = IF hit THEN @ ELSE @ + 1,
                    !.counter = @ + 1]
       IN /\ lookups' = Append(lookups, [hit |-> hit])
          /\ IF gc.counter >= GEOCODE_STATS_BATCH_SIZE
             THEN flush_geocode_stats(gc, c, FALSE)
             ELSE geocode_counters' = gc /\ schema' = schema
  /\ stats_dirty' = TRUE
  /\ StatsFrame

\* scanner.py:300, the flush that ends a walk; task 1 is the walk
WalkFlush ==
  /\ geocode_counters.flush[1].pc = "idle"
  /\ ~geocode_counters.walk_done
  /\ flush_geocode_stats(geocode_counters, 1, TRUE)
  /\ UNCHANGED <<stats_dirty, lookups>>
  /\ StatsFrame

\* lines 682-692: execute and commit are over, the three counters are reset
FlushResets(c) ==
  /\ geocode_counters.flush[c].pc = "flushing"
  /\ geocode_counters' =
       [geocode_counters EXCEPT
          !.cache_hits = 0, !.cache_misses = 0, !.counter = 0,
          !.flush[c] = [pc |-> "idle", hits |-> 0, misses |-> 0, walk |-> FALSE],
          !.walk_done = @ \/ geocode_counters.flush[c].walk]
  /\ stats_dirty' = FALSE
  /\ UNCHANGED <<schema, lookups>>
  /\ StatsFrame

StatsNext ==
  \/ \E c \in 1..NumCallers : GeocodeLookup(c) \/ FlushResets(c)
  \/ WalkFlush

SpecStats == RetryInit /\ [][StatsNext]_vars

\* ------------------------------------------------- watcher: the steps
nonWatchVars == <<ingestVars, walkVars, pageVars, queryVars, serviceVars, setupVars>>
pendingVars == <<pending_new, pending_modified, pending_deleted>>

\* an entry of the loop's ready queue: a closure handed off by an on_* handler,
\* or the wakeup of the drain task that task.cancel() schedules.  stale marks
\* the entries that were in the queue when stop_watching returned.
Event(kind, src, dest, is_directory) ==
  [kind |-> kind, src |-> src, dest |-> dest, is_directory |-> is_directory,
   stale |-> FALSE]

CancelWakeup ==
  [kind |-> "cancel", src |-> 0, dest |-> 0, is_directory |-> FALSE, stale |-> TRUE]

InsertAt(sq, i, e) == SubSeq(sq, 1, i) \o <<e>> \o SubSeq(sq, i + 1, Len(sq))

Staled(sq) == [i \in DOMAIN sq |-> [sq[i] EXCEPT !.stale = TRUE]]

\* the part of an on_* handler that runs on the observer thread: the event is
\* dropped unless wanted, else its closure is handed to the loop
Deliver(e, wanted) ==
  /\ observer = "alive"
  /\ emitted < MaxEvents
  /\ emitted' = emitted + 1
  /\ threadq' = IF wanted THEN Append(threadq, e) ELSE threadq
  /\ UNCHANGED <<storeVars, stats_dirty, nonWatchVars, observer, pendingVars,
                 processor_task, is_processing, drain, evclock, handled, scen, stopped>>

\* the suffix test alone
wanted_file_by_name(p, is_directory) == is_media_file(p)

\* the two early returns of on_created, on_modified and on_deleted
wanted_file(p, is_directory) == ~is_directory /\ is_media_file(p)

on_created(p, is_directory) ==
  Deliver(Event("created", p, p, is_directory), wanted_file(p, is_directory))

on_modified(p, is_directory) ==
  Deliver(Event("modified", p, p, is_directory), wanted_file(p, is_directory))

on_deleted(p, is_directory) ==
  Deliver(Event("deleted", p, p, is_directory), wanted_file(p, is_directory))

\* every move is handed to the loop
wanted_move_always(src, dest, is_directory) == TRUE

\* the two early returns of on_moved
wanted_move(src, dest, is_directory) ==
  ~is_directory /\ (is_media_file(src) \/ is_media_file(dest))

\* a file is renamed to a file path, a directory to a directory path
on_moved(src, dest, is_directory) ==
  /\ src # dest
  /\ ~IsDirectory(dest)
  /\ IsDirectory(src) => dest = OtherFile
  /\ Deliver(Event("moved", src, dest, is_directory), wanted_move(src, dest, is_directory))

\* a task is created by every closure
task_is_none_or_done_always(task) == TRUE

\* 'self._processor_task is None or self._processor_task.done()'
task_is_none_or_done(task) == task \in {"none", "done"}

\* async_create_task replaces the reference; a task that was not done goes
\* on running without one
start_processor_if_needed ==
  IF task_is_none_or_done(processor_task)
  THEN /\ processor_task' = "pending"
       /\ drain' = [pc |-> "sleepBatch", batch |-> <<>>]
       /\ orphaned_tasks' = orphaned_tasks
                              + (IF processor_task \in {"pending", "cancelling"} THEN 1 ELSE 0)
  ELSE UNCHANGED <<processor_task, drain, orphaned_tasks>>

\* what a closure leaves alone, besides the pending sets and the task
RunClosure(kind) ==
  /\ threadq # <<>>
  /\ Head(threadq).kind = kind
  /\ threadq' = Tail(threadq)
  /\ evclock' = evclock + 1
  /\ start_processor_if_needed
  /\ UNCHANGED <<storeVars, stats_dirty, ingestVars, walkVars, pageVars, queryVars,
                 serviceVars, schema, geocode_counters, observer, is_processing, emitted, handled, stopped>>

add_to_new_queue ==
  /\ RunClosure("created")
  /\ LET p == Head(threadq).src
     IN /\ pending_new' = (p :> evclock') @@ pending_new
        /\ pending_modified' = Without(pending_modified, {p})
        /\ pending_deleted' = pending_deleted \ {p}
        /\ scen' = [scen EXCEPT ![p] =
                      IF Head(threadq).stale THEN NoScen
                      ELSE [on |-> TRUE, ts |-> evclock', taken |-> FALSE, mods |-> 0]]

\* on_modified's test, event.src_path in self._pending_new, and the variant
\* that never finds the path
already_pending_new_never(pn, p) == FALSE
already_pending_new(pn, p) == p \in DOMAIN pn

add_to_modified_queue ==
  /\ RunClosure("modified")
  /\ LET p == Head(threadq).src
     IN /\ IF ~already_pending_new(pending_new, p)
           THEN /\ pending_modified' = (p :> evclock') @@ pending_modified
                /\ pending_deleted' = pending_deleted \ {p}
           ELSE UNCHANGED <<pending_modified, pending_deleted>>
        /\ UNCHANGED pending_new
        /\ scen' = [scen EXCEPT ![p] =
                      IF @.on /\ ~@.taken /\ ~Head(threadq).stale
                      THEN [@ EXCEPT !.mods = @ + 1] ELSE NoScen]

add_to_deleted_queue ==
  /\ RunClosure("deleted")
  /\ LET p == Head(threadq).src
     IN /\ pending_deleted' = pending_deleted \cup {p}
        /\ pending_new' = Without(pending_new, {p})
        /\ pending_modified' = Without(pending_modified, {p})
        /\ scen' = [scen EXCEPT ![p] = NoScen]

handle_move ==
  /\ RunClosure("moved")
  /\ LET src == Head(threadq).src
         dest == Head(threadq).dest
         src_is_media == is_media_file(src)
         dest_is_media == is_media_file(dest)
         d1 == IF src_is_media THEN pending_deleted \cup {src} ELSE pending_deleted
         n1 == IF src_is_media THEN Without(pending_new, {src}) ELSE pending_new
         m1 == IF src_is_media THEN Without(pending_modified, {src}) ELSE pending_modified
     IN /\ pending_new' = IF dest_is_media THEN (dest :> evclock') @@ n1 ELSE n1
        /\ pending_modified' = IF dest_is_media THEN Without(m1, {dest}) ELSE m1
        /\ pending_deleted' = IF dest_is_media THEN d1 \ {dest} ELSE d1
        /\ scen' = [p \in WatchPaths |-> IF p \in {src, dest} THEN NoScen ELSE scen[p]]

\* _process_event_batches from the test of one pending set up to the next
\* await: stage 1 is "if self._pending_deleted", 2 "if self._pending_new",
\* 3 "if self._pending_modified", 4 the sleep of RATE_LIMIT_DELAY
TakeDeleted(b) ==
  /\ drain' = [pc |-> "deleted", batch |-> b]
  /\ pending_deleted' = pending_deleted \ ItemPaths(b)
  /\ UNCHANGED <<pending_new, pending_modified, scen>>

TakeNew ==
  LET new_batch == Prefix(SortedItems(pending_new), MaxBatchSize)
  IN /\ drain' = [pc |-> "new", batch |-> new_batch]
     /\ pending_new' = Without(pending_new, ItemPaths(new_batch))
     /\ scen' = [p \in WatchPaths |->
                   IF scen[p].on /\ p \in ItemPaths(new_batch) /\ pending_new[p] = scen[p].ts
                   THEN [scen[p] EXCEPT !.taken = TRUE] ELSE scen[p]]
     /\ UNCHANGED <<pending_modified, pending_deleted>>

TakeModified ==
  LET mod_batch == Prefix(SortedItems(pending_modified), MaxBatchSize)
  IN /\ drain' = [pc |-> "modified", batch |-> mod_batch]
     /\ pending_modified' = Without(pending_modified, ItemPaths(mod_batch))
     /\ UNCHANGED <<pending_new, pending_deleted, scen>>

RunFrom(stage) ==
  IF stage <= 1 /\ pending_deleted # {}
  THEN \E b \in DeletedBatches(pending_deleted) : TakeDeleted(b)
  ELSE IF stage <= 2 /\ DOMAIN pending_new # {} THEN TakeNew
  ELSE IF stage <= 3 /\ DOMAIN pending_modified # {} THEN TakeModified
  ELSE /\ drain' = [pc |-> "sleepRate", batch |-> <<>>]
       /\ UNCHANGED <<pendingVars, scen>>

\* the rest of the batch, or the code after the batch's loop
NextInBatch(stage) ==
  IF Len(drain.batch) > 1
  THEN /\ drain' = [drain EXCEPT !.batch = Tail(@)]
       /\ UNCHANGED <<pendingVars, scen>>
  ELSE RunFrom(stage)

InBatch(pc) ==
  /\ processor_task = "pending"
  /\ drain.pc = pc
  /\ drain.batch # <<>>

Handled(kind) == [kind |-> kind, path |-> Head(drain.batch)[1], ts |-> Head(drain.batch)[2]]

drainFrame == <<nonWatchVars, observer, threadq, processor_task, is_processing,
                evclock, emitted, stopped>>

\* the sleep of BATCH_DELAY is over
BatchWake ==
  /\ processor_task = "pending"
  /\ drain.pc = "sleepBatch"
  /\ LET has_events == \/ DOMAIN pending_new # {}
                       \/ DOMAIN pending_modified # {}
                       \/ pending_deleted # {}
     IN IF has_events
        THEN /\ is_processing' = TRUE
             /\ RunFrom(1)
             /\ UNCHANGED processor_task
        ELSE /\ is_processing' = FALSE
             /\ processor_task' = "done"
             /\ drain' = IdleDrain
             /\ UNCHANGED <<pendingVars, scen>>
  /\ UNCHANGED <<storeVars, stats_dirty, nonWatchVars, observer, threadq, evclock,
                 emitted, handled, stopped>>

\* _handle_deleted_file
HandleDeleted ==
  /\ InBatch("deleted")
  /\ SetStore(remove_file(DB, Head(drain.batch)[1]))
  /\ handled' = Append(handled, Handled("deleted"))
  /\ NextInBatch(2)
  /\ UNCHANGED <<stats_dirty, drainFrame>>

\* the watcher's scan_file call on a file whose extractor returns None
WatchIngest(p, fail) ==
  SetStep(scan_file(DB, FileData(p), ExifNone, GeoNone, now, enable_geocoding, fail))

\* _handle_new_file
HandleNew ==
  /\ InBatch("new")
  /\ WatchIngest(Head(drain.batch)[1], 0)
  /\ handled' = Append(handled, Handled("new"))
  /\ NextInBatch(3)
  /\ UNCHANGED drainFrame

\* _handle_modified_file
HandleModified ==
  /\ InBatch("modified")
  /\ WatchIngest(Head(drain.batch)[1], 0)
  /\ handled' = Append(handled, Handled("modified"))
  /\ NextInBatch(4)
  /\ UNCHANGED drainFrame

\* the sleep of RATE_LIMIT_DELAY is over: back to the sleep of BATCH_DELAY
RateWake ==
  /\ processor_task = "pending"
  /\ drain.pc = "sleepRate"
  /\ drain' = [pc |-> "sleepBatch", batch |-> <<>>]
  /\ UNCHANGED <<storeVars, stats_dirty, drainFrame, pendingVars, handled, scen>>

\* the wakeup scheduled by task.cancel() runs: CancelledError is thrown at the
\* await the task is suspended in, "except Exception" does not catch it, the finally block
\* runs.  A store call that was already under way may or may not have been
\* applied; the rest of the batch is lost.
DrainCancelled ==
  /\ processor_task = "cancelling"
  /\ threadq # <<>>
  /\ Head(threadq).kind = "cancel"
  /\ threadq' = Tail(threadq)
  /\ processor_task' = "done"
  /\ is_processing' = FALSE
  /\ drain' = IdleDrain
  /\ IF drain.batch = <<>> THEN UNCHANGED <<storeVars, stats_dirty>>
     ELSE IF drain.pc = "deleted"
     THEN /\ \E ok \in BOOLEAN :
               SetStore(IF ok THEN remove_file(DB, Head(drain.batch)[1]) ELSE DB)
          /\ UNCHANGED stats_dirty
     ELSE \E fail \in {0, 1} : WatchIngest(Head(drain.batch)[1], fail)
  /\ UNCHANGED <<nonWatchVars, observer, pendingVars, evclock, emitted,
                 handled, scen, stopped>>

\* start_watching: the observer is created, scheduled and started
StartWatching ==
  /\ observer = "none"
  /\ observer' = "alive"
  /\ stopped' = FALSE
  /\ UNCHANGED <<storeVars, stats_dirty, nonWatchVars, threadq, pendingVars,
                 processor_task, is_processing, drain, evclock, emitted, handled, scen>>

\* stop_watching; closures already handed to the loop stay in its queue.  The
\* cancelled task's wakeup goes behind the closures handed off before cancel()
\* and ahead of those the observer thread hands off until it has stopped,
\* or it is the wakeup that was already in the queue.
StopWatching ==
  /\ observer # "none"
  /\ IF processor_task = "pending"
     THEN /\ processor_task' = "cancelling"
          /\ \E i \in 0..Len(threadq) : threadq' = InsertAt(Staled(threadq), i, CancelWakeup)
     ELSE /\ UNCHANGED processor_task
          /\ threadq' = Staled(threadq)
  /\ pending_new' = EmptyFn
  /\ pending_modified' = EmptyFn
  /\ pending_deleted' = {}
  /\ observer' = "none"
  /\ stopped' = TRUE
  /\ scen' = [p \in WatchPaths |-> NoScen]
  /\ UNCHANGED <<storeVars, stats_dirty, nonWatchVars, is_processing, drain,
                 evclock, emitted, handled>>

WatchNext ==
  \/ \E p \in EventPaths : on_created(p, IsDirectory(p))
  \/ \E p \in EventPaths : on_modified(p, IsDirectory(p))
  \/ \E p \in EventPaths : on_deleted(p, IsDirectory(p))
  \/ \E src \in EventPaths, dest \in EventPaths : on_moved(src, dest, IsDirectory(src))
  \/ add_to_new_queue
  \/ add_to_modified_queue
  \/ add_to_deleted_queue
  \/ handle_move
  \/ BatchWake
  \/ HandleDeleted
  \/ HandleNew
  \/ HandleModified
  \/ RateWake
  \/ DrainCancelled
  \/ StartWatching
  \/ StopWatching

\* the watcher's ingests carry no coordinates, so the geocoding stage is not
\* reached and one setting of enable_geocoding stands for both
WatcherInit == Init /\ enable_geocoding

SpecWatch == WatcherInit /\ [][WatchNext]_vars

\* what the event loop does on its own: it runs the callbacks in its queue,
\* and a sleep or a store call of the drain task comes to its end
LoopStep ==
  \/ add_to_new_queue
  \/ add_to_modified_queue
  \/ add_to_deleted_queue
  \/ handle_move
  \/ BatchWake
  \/ HandleDeleted
  \/ HandleNew
  \/ HandleModified
  \/ RateWake
  \/ DrainCancelled

SpecWatchFair == WatcherInit /\ [][WatchNext]_vars /\ WF_vars(LoopStep)

\* ------------------------------------------------- listing (cache_manager.py)
\* get_ordered_files reads media_files m LEFT JOIN exif_data e.  A row of the
\* catalog holds the columns the ordering and the cursor use.  Text values are
\* held by their rank in SQLite's BINARY collation.  A SQL value is a pair
\* <<storage class, value>>: NULL, INTEGER and TEXT compare in this order.
RowIds == 1..NumRows
Folders == {1, 2}
FileNames == {1, 2}
\* m.modified_time holds datetime.isoformat() text
ModifiedTimes == {1, 2}
\* e.date_taken holds a Unix timestamp, or NULL (no exif row, no capture time)
DatesTaken == {NoneInt, 1, 2}

CatalogRows ==
  [folder : Folders, filename : FileNames, modified_time : ModifiedTimes,
   date_taken : DatesTaken]

\* path is UNIQUE: no two rows share folder and filename
Catalogs ==
  {c \in [RowIds -> CatalogRows] :
     \A i, j \in RowIds :
       i # j => <<c[i].folder, c[i].filename>> # <<c[j].folder, c[j].filename>>}

SqlNull == <<0, 0>>
SqlInt(v) == <<1, v>>
SqlText(v) == <<2, v>>

SqlLess(a, b) == a[1] < b[1] \/ (a[1] = b[1] /\ a[2] < b[2])

\* folder || '/' || filename, which is also the row's path
PathRank(row) == row.folder * (NumRows + 2) + row.filename

OrderFields == {"date_taken", "filename", "path", "modified_time"}
Directions == {"asc", "desc"}

\* allowed_sort_fields
sort_field(row, field) ==
  CASE field = "date_taken" ->
         IF row.date_taken # NoneInt THEN SqlInt(row.date_taken)
         ELSE SqlText(row.modified_time)
    [] field = "filename" -> SqlText(row.filename)
    [] field = "path" -> SqlText(PathRank(row))
    [] field = "modified_time" -> SqlText(row.modified_time)

\* item[order_by] of a returned dict: the value the caller has for the cursor
item_value(row, field) ==
  CASE field = "date_taken" ->
         IF row.date_taken # NoneInt THEN SqlInt(row.date_taken) ELSE SqlNull
    [] field = "filename" -> SqlText(row.filename)
    [] field = "path" -> SqlText(PathRank(row))
    [] field = "modified_time" -> SqlText(row.modified_time)

\* ORDER BY sort_field dir, m.id dir
Before(cat, field, dir, i, j) ==
  LET a == sort_field(cat[i], field)
      b == sort_field(cat[j], field)
  IN IF dir = "desc" THEN SqlLess(b, a) \/ (a = b /\ j < i)
     ELSE SqlLess(a, b) \/ (a = b /\ i < j)

RECURSIVE OrderedIds(_, _, _, _)
OrderedIds(cat, field, dir, S) ==
  IF S = {} THEN <<>>
  ELSE LET first == CHOOSE i \in S : \A j \in S \ {i} : Before(cat, field, dir, i, j)
       IN <<first>> \o OrderedIds(cat, field, dir, S \ {first})

\* the cursor clause of the WHERE; it is added only if after_value is not None
after_cursor(cat, field, dir, av, aid, i) ==
  LET k == sort_field(cat[i], field)
  IN IF av = SqlNull THEN TRUE
     ELSE IF aid # NoneInt
     THEN IF dir = "desc" THEN SqlLess(k, av) \/ (k = av /\ i < aid)
          ELSE SqlLess(av, k) \/ (k = av /\ i > aid)
     ELSE IF dir = "desc" THEN SqlLess(k, av) ELSE SqlLess(av, k)

\* the ids of the rows get_ordered_files returns, in order
get_ordered_files(cat, n, field, dir, av, aid) ==
  Prefix(OrderedIds(cat, field, dir,
                    {i \in DOMAIN cat : after_cursor(cat, field, dir, av, aid, i)}), n)

\* the caller asks for the next page with the cursor of the last row it got
FetchPage ==
  /\ ~exhausted
  /\ page_calls < MaxPages
  /\ page_calls' = page_calls + 1
  /\ LET rows == get_ordered_files(catalog, count, order_by, order_direction,
                                   after_value, after_id)
     IN IF rows = <<>>
        THEN /\ exhausted' = TRUE
             /\ UNCHANGED <<collected, after_value, after_id>>
        ELSE /\ collected' = collected \o rows
             /\ after_value' = item_value(catalog[rows[Len(rows)]], order_by)
             /\ after_id' = rows[Len(rows)]
             /\ UNCHANGED exhausted
  /\ UNCHANGED <<storeVars, stats_dirty, ingestVars, walkVars, watchVars, queryVars,
                 serviceVars, setupVars, catalog, order_by, order_direction, count>>

PageNext == FetchPage

\* an unchanging catalog and the arguments of one paged listing
ListingInit ==
  /\ InitStore
  /\ InitWalk
  /\ InitWatch
  /\ InitIngest
  /\ InitQuery
  /\ enable_geocoding
  /\ catalog \in Catalogs
  /\ order_by \in OrderFields
  /\ order_direction \in Directions
  /\ count \in 1..NumRows
  /\ after_value = SqlNull
  /\ after_id = NoneInt
  /\ collected = <<>>
  /\ page_calls = 0
  /\ exhausted = FALSE

SpecPage == ListingInit /\ [][PageNext]_vars

\* add_file inserts the MediaRecord of a path that is not yet in the catalog,
\* between two page requests: AUTOINCREMENT gives it the next id
InsertFile ==
  /\ page_calls > 0
  /\ ~exhausted
  /\ Len(catalog) < NumRows + MaxInserts
  /\ \E r \in CatalogRows :
       /\ \A i \in DOMAIN catalog :
            <<catalog[i].folder, catalog[i].filename>> # <<r.folder, r.filename>>
       /\ catalog' = Append(catalog, r)
  /\ UNCHANGED <<storeVars, stats_dirty, ingestVars, walkVars, watchVars, queryVars,
                 serviceVars, setupVars, order_by, order_direction, count, after_value, after_id,
                 collected, page_calls, exhausted>>

SpecPageInsert == ListingInit /\ [][FetchPage \/ InsertFile]_vars

\* ----------------------------------------------- burst (cache_manager.py)

\* 6371000 * acos(cos(lat1) cos(lat2) cos(lon2 - lon1) + sin(lat1) sin(lat2)):
\* on one meridian the arc is the difference of the latitudes; SQL NULL when
\* the row has no coordinates
distance_meters(lat1, lon1, lat2, lon2) ==
  IF lat2 = NoneInt \/ lon2 = NoneInt THEN NoneInt
  ELSE 11 * (IF lat1 >= lat2 THEN lat1 - lat2 ELSE lat2 - lat1)

\* rows: id -> [date_taken, latitude, longitude] of media_files JOIN exif_data;
\* reference: the id of the row of reference_path, 0 when no row has that path
get_burst_photos(rows, reference, time_window_seconds, prefer_same_location, location_tolerance_meters, sort_order) ==
  IF reference \notin DOMAIN rows THEN <<>>
  ELSE
    LET ref == rows[reference]
        by_location == Truthy(ref.latitude) /\ Truthy(ref.longitude)
                         /\ prefer_same_location
        offset(i) == IF rows[i].date_taken >= ref.date_taken
                     THEN rows[i].date_taken - ref.date_taken
                     ELSE ref.date_taken - rows[i].date_taken
        dist(i) == distance_meters(ref.latitude, ref.longitude,
                                   rows[i].latitude, rows[i].longitude)
        selected == {i \in DOMAIN rows :
                       /\ rows[i].date_taken # NoneInt
                       /\ offset(i) <= time_window_seconds
                       /\ by_location =>
                            dist(i) # NoneInt /\ dist(i) <= location_tolerance_meters}
        before(i, j) == IF rows[i].date_taken = rows[j].date_taken THEN i < j
                        ELSE IF sort_order = "time_desc"
                             THEN rows[i].date_taken > rows[j].date_taken
                             ELSE rows[i].date_taken < rows[j].date_taken
    IN IF ~Truthy(ref.date_taken) THEN <<>>
       ELSE CHOOSE s \in [1..Cardinality(selected) -> selected] :
              \A a, b \in DOMAIN s : a < b => before(s[a], s[b])

BurstQuery ==
  /\ query.op = "burst"
  /\ ~answer.done
  /\ answer' = [done |-> TRUE,
                rows |-> get_burst_photos(query.rows, query.reference,
                           query.time_window_seconds, query.prefer_same_location,
                           query.location_tolerance_meters, query.sort_order)]
  /\ UNCHANGED <<storeVars, stats_dirty, ingestVars, walkVars, watchVars, pageVars,
                 serviceVars, setupVars, query>>

BurstInit ==
  /\ InitStore
  /\ InitWalk
  /\ InitWatch
  /\ InitPage
  /\ InitIngest
  /\ LET \* e.date_taken in seconds; NULL when the file has no capture time
         BurstTimes == {NoneInt, 1, 2, 3, 4}
         \* e.latitude in units of 0.0001 degree (11 m on a meridian): the
         \* equator, 44 m and 220 m north of it; NULL when there is no position
         BurstLatitudes == {NoneInt, 0, 4, 20}
         \* e.longitude: every located row is on one meridian
         BurstLongitudes == {NoneInt, 100}
     IN query \in [op : {"burst"},
                   rows : [1..NumBurstRows ->
                             [date_taken : BurstTimes, latitude : BurstLatitudes,
                              longitude : BurstLongitudes]],
                   reference : 0..1,
                   time_window_seconds : {1, 2},
                   prefer_same_location : BOOLEAN,
                   location_tolerance_meters : {50},
                   sort_order : {"time_asc", "time_desc"}]
  /\ answer = [done |-> FALSE, rows |-> <<>>]
  /\ lookups = <<>>
  /\ geocoder = IdleGeocoder
  /\ removal = [n |-> 0, op |-> "none", path |-> 0, returned |-> FALSE]
  /\ on_disk = [present |-> Paths, epoch |-> 0]
  /\ pending_exif = [pc |-> "idle"]
  /\ schema = MigratedSchema
  /\ orphaned_tasks = 0
  /\ geocode_counters = IdleCounters

SpecBurst == BurstInit /\ [][BurstQuery]_vars

\* -------------------------------------- random sampling (cache_manager.py)

\* A folder is the sequence of the pieces of its path: <<"/", "a", "/", "b">>
\* is /a/b.  A row is m.* with the exif columns of the LEFT JOIN:
\* last_scanned and date_taken are INTEGER seconds, created_time is the
\* isoformat text of an instant (held by that instant), is_favorited is NULL
\* for a file that has no exif row.
SampleRows ==
  LET row(f, ty, ls, dt, ct, fav) ==
        [folder |-> f, file_type |-> ty, last_scanned |-> ls, date_taken |-> dt,
         created_time |-> ct, is_favorited |-> fav]
  IN {row(<<"/", "a">>, "image", 8, 3, 3, 1),
      row(<<"/", "a">>, "image", 2, 3, 3, 0),
      row(<<"/", "a", "/", "b">>, "video", 8, 1, 1, 0),
      row(<<"/", "a", "b">>, "image", 2, 3, 3, 1),
      row(<<"/", "a", "/", "_Junk">>, "image", 8, 3, 3, 1),
      row(<<"/", "a">>, "image", 2, NoneInt, 1, NoneInt),
      row(<<"/", "c">>, "video", 8, NoneInt, 3, 0)}

\* the conditions every sampling query puts in its WHERE clause
sample_where(r, q) ==
  LET \* m.folder LIKE '%/_Junk%'
      like(name) == \E i \in 1..(Len(r.folder) - 1) :
                      r.folder[i] = "/" /\ r.folder[i + 1] = name
      \* COALESCE(e.date_taken, m.created_time): an INTEGER or a TEXT
      taken == IF r.date_taken # NoneInt THEN SqlInt(r.date_taken)
               ELSE SqlText(r.created_time)
  IN /\ ~like("_Junk")
     /\ ~like("_Edit")
     /\ q.folder # <<>> =>
          IF q.recursive
          THEN /\ Len(q.folder) <= Len(r.folder)
               /\ SubSeq(r.folder, 1, Len(q.folder)) = q.folder
          ELSE r.folder = q.folder
     /\ q.file_type # NoneStr => r.file_type = q.file_type
     /\ q.favorites_only => r.is_favorited = 1
     /\ q.timestamp_from # NoneInt => ~SqlLess(taken, SqlInt(q.timestamp_from))
     /\ q.timestamp_to # NoneInt => ~SqlLess(SqlInt(q.timestamp_to), taken)

\* the orders in which min(n, |S|) distinct members of S can come out of
\* ORDER BY RANDOM() LIMIT n
Arrangements(S, n) ==
  LET k == Min(n, Cardinality(S))
  IN {s \in [1..k -> S] : \A a, b \in 1..k : a # b => s[a] # s[b]}

\* the first n members of S in index order
random_sample_first(S, n) ==
  {s \in Arrangements(S, n) :
     /\ \A a, b \in DOMAIN s : a < b => s[a] < s[b]
     /\ \A x \in S : (\E a \in DOMAIN s : x < s[a]) => \E a \in DOMAIN s : x = s[a]}

\* random.sample(population, k)
random_sample(S, n) == Arrangements(S, n)

\* the results _get_random_excluding can return
get_random_excluding(rows, q, n, exclude_ids) ==
  Arrangements({i \in DOMAIN rows : sample_where(rows[i], q) /\ i \notin exclude_ids}, n)

\* the results get_random_files can return
get_random_files(rows, q) ==
  IF q.priority_new_files
  THEN LET threshold_time == q.current_time - q.new_files_threshold_seconds
           all_new_files == {i \in DOMAIN rows : /\ rows[i].last_scanned > threshold_time
                                                 /\ sample_where(rows[i], q)}
           new_files == IF Cardinality(all_new_files) > q.count
                        THEN random_sample(all_new_files, q.count)
                        ELSE Arrangements(all_new_files, Cardinality(all_new_files))
           filled(nf) ==
             LET remaining == q.count - Len(nf)
             IN IF remaining > 0
                THEN {nf \o rf : rf \in get_random_excluding(rows, q, remaining,
                                           {nf[k] : k \in DOMAIN nf})}
                ELSE {Prefix(nf, q.count)}
       IN UNION {filled(nf) : nf \in new_files}
  ELSE Arrangements({i \in DOMAIN rows : sample_where(rows[i], q)}, q.count)

SampleQuery ==
  /\ query.op = "random"
  /\ ~answer.done
  /\ \E result \in get_random_files(query.rows, query) :
       answer' = [done |-> TRUE, rows |-> result]
  /\ UNCHANGED <<storeVars, stats_dirty, ingestVars, walkVars, watchVars, pageVars,
                 serviceVars, setupVars, query>>

\* one filter at a time
SampleInit ==
  /\ InitStore
  /\ InitWalk
  /\ InitWatch
  /\ InitPage
  /\ InitIngest
  /\ LET NoFilter == [folder |-> <<>>, recursive |-> TRUE, file_type |-> NoneStr,
                      favorites_only |-> FALSE, timestamp_from |-> NoneInt,
                      timestamp_to |-> NoneInt]
         Filters == {NoFilter,
                     [NoFilter EXCEPT !.folder = <<"/", "a">>],
                     [NoFilter EXCEPT !.folder = <<"/", "a">>, !.recursive = FALSE],
                     [NoFilter EXCEPT !.file_type = "image"],
                     [NoFilter EXCEPT !.favorites_only = TRUE],
                     [NoFilter EXCEPT !.timestamp_from = 2],
                     [NoFilter EXCEPT !.timestamp_to = 2]}
     IN \E f \in Filters, tbl \in [1..NumSampleRows -> SampleRows],
           n \in 1..NumSampleRows, prio \in BOOLEAN :
          query = [op |-> "random", rows |-> tbl, count |-> n,
                   priority_new_files |-> prio, current_time |-> 10,
                   new_files_threshold_seconds |-> 5,
                   folder |-> f.folder, recursive |-> f.recursive,
                   file_type |-> f.file_type, favorites_only |-> f.favorites_only,
                   timestamp_from |-> f.timestamp_from, timestamp_to |-> f.timestamp_to]
  /\ answer = [done |-> FALSE, rows |-> <<>>]
  /\ lookups = <<>>
  /\ geocoder = IdleGeocoder
  /\ removal = [n |-> 0, op |-> "none", path |-> 0, returned |-> FALSE]
  /\ on_disk = [present |-> Paths, epoch |-> 0]
  /\ pending_exif = [pc |-> "idle"]
  /\ schema = MigratedSchema
  /\ orphaned_tasks = 0
  /\ geocode_counters = IdleCounters

SpecSample == SampleInit /\ [][SampleQuery]_vars

\* ------------------------------------- geocode_file service (__init__.py)

\* handle_geocode_file called with latitude and longitude, and with the
\* file_id of an exif_data row or none (0): the cache is asked first, the
\* geocoder only on a miss, its answer is stored, and the place is written to
\* the row of file_id.  Two of the latitudes, 40.7123 and 40.7124, round to
\* the same cell.
GeocodeFile ==
  /\ enable_geocoding
  /\ Len(lookups) < MaxLookups
  /\ \E lat \in Latitudes \cup {407124}, lon \in Longitudes, geo \in GeoAnswers,
        file_id \in {0} \cup DOMAIN exif_data :
       LET cached_location == get_geocode_cache(DB, lat, lon)
           did(hit, called, stored) ==
             Append(lookups, [latitude |-> lat, longitude |-> lon, hit |-> hit,
                              called |-> called, stored |-> stored])
       IN IF cached_location.ok
          THEN /\ lookups' = did(TRUE, FALSE, FALSE)
               /\ SetStore(update_exif_location(DB, file_id, cached_location.place))
          ELSE IF geo.ok
               THEN /\ lookups' = did(FALSE, TRUE, TRUE)
                    /\ SetStore(update_exif_location(
                                  add_geocode_cache(DB, lat, lon, geo.place),
                                  file_id, geo.place))
               ELSE /\ lookups' = did(FALSE, TRUE, FALSE)
                    /\ UNCHANGED storeVars
  /\ stats_dirty' = TRUE
  /\ UNCHANGED <<ingestVars, walkVars, watchVars, pageVars, queryVars, geocoder, removal,
                 on_disk, pending_exif, setupVars>>

SpecGeo == WatcherInit /\ [][GeocodeFile]_vars

\* --------------------------------------------- rate limit (geocoding.py)

\* the request leaves: _last_request_time = loop.time(), then session.get
SendRequest(g, c) ==
  [g EXCEPT !.last_request_time = g.time,
            !.sent = Append(@, [caller |-> c, time |-> g.time]),
            !.callers[c] = [pc |-> "idle", wake |-> 0]]

\* a caller enters reverse_geocode and runs _rate_limit up to its await: it
\* sends at once, or computes the delay and sleeps
RateLimit(c) ==
  /\ geocoder.callers[c].pc = "idle"
  /\ Len(geocoder.sent)
       + Cardinality({d \in 1..NumCallers : geocoder.callers[d].pc = "sleeping"})
       < MaxRequests
  /\ LET current_time == geocoder.time
         time_since_last == current_time - geocoder.last_request_time
     IN IF time_since_last < RATE_LIMIT_DELAY
        THEN geocoder' = [geocoder EXCEPT !.callers[c] =
                            [pc |-> "sleeping",
                             wake |-> current_time + (RATE_LIMIT_DELAY - time_since_last)]]
        ELSE geocoder' = SendRequest(geocoder, c)
  /\ UNCHANGED <<storeVars, stats_dirty, ingestVars, walkVars, watchVars, pageVars,
                 queryVars, lookups, removal, on_disk, pending_exif, setupVars>>

\* asyncio.sleep(delay) is over
RateLimitWake(c) ==
  /\ geocoder.callers[c].pc = "sleeping"
  /\ geocoder.callers[c].wake <= geocoder.time
  /\ geocoder' = SendRequest(geocoder, c)
  /\ UNCHANGED <<storeVars, stats_dirty, ingestVars, walkVars, watchVars, pageVars,
                 queryVars, lookups, removal, on_disk, pending_exif, setupVars>>

\* the loop's clock advances once every sleeper that is due has run
LoopTime ==
  /\ geocoder.time < MaxClock
  /\ \A c \in 1..NumCallers :
       geocoder.callers[c].pc = "sleeping" => geocoder.callers[c].wake > geocoder.time
  /\ geocoder' = [geocoder EXCEPT !.time = @ + 1]
  /\ UNCHANGED <<storeVars, stats_dirty, ingestVars, walkVars, watchVars, pageVars,
                 queryVars, lookups, removal, on_disk, pending_exif, setupVars>>

RateNext ==
  \/ \E c \in 1..NumCallers : RateLimit(c) \/ RateLimitWake(c)
  \/ LoopTime

SpecRate == WatcherInit /\ [][RateNext]_vars

\* ------------------------------------------- removal (cache_manager.py)

\* CacheManager.remove_file: the DELETE is executed and committed, and True is
\* returned whenever it did not raise
RemoveFile(p) ==
  /\ removal.n < MaxRemovals
  /\ SetStore(remove_file(DB, p))
  /\ removal' = [n |-> removal.n + 1, op |-> "remove_file", path |-> p, returned |-> TRUE]
  /\ UNCHANGED <<stats_dirty, ingestVars, walkVars, watchVars, pageVars, queryVars,
                 lookups, geocoder, on_disk, pending_exif, setupVars>>

\* CacheManager.delete_file: the id is looked up first; without a row False is
\* returned, else the exif_data row and the media_files row are deleted
DeleteFile(p) ==
  /\ removal.n < MaxRemovals
  /\ IF p \notin DOMAIN media_files
     THEN /\ UNCHANGED storeVars
          /\ removal' = [n |-> removal.n + 1, op |-> "delete_file", path |-> p,
                         returned |-> FALSE]
     ELSE /\ LET file_id == media_files[p].id
             IN SetStore([DB EXCEPT !.exif_data = Without(@, {file_id}),
                                    !.media_files = Without(@, {p})])
          /\ removal' = [n |-> removal.n + 1, op |-> "delete_file", path |-> p,
                         returned |-> TRUE]
  /\ UNCHANGED <<stats_dirty, ingestVars, walkVars, watchVars, pageVars, queryVars,
                 lookups, geocoder, on_disk, pending_exif, setupVars>>

SpecRemove ==
  Init /\ [][\E p \in Paths : FileIngest(p) \/ RemoveFile(p) \/ DeleteFile(p)]_vars

\* ------------------------------- add_exif_data at its awaits (cache_manager.py)

\* scan_file up to the SELECT of add_exif_data: the MediaRecord is upserted
\* and the existing exif_data row is read
\* foreign keys are not enforced
foreign_key_ok_always(db, file_id) == TRUE

\* FOREIGN KEY (file_id) REFERENCES media_files(id), enforced by the PRAGMA of
\* async_setup
foreign_key_ok(db, file_id) ==
  \E q \in DOMAIN db.media_files : db.media_files[q].id = file_id

AddExifRead(p) ==
  /\ pending_exif.pc = "idle"
  /\ Tick
  /\ LET db1 == add_file(DB, FileData(p), now')
     IN /\ SetStore(db1)
        /\ pending_exif' = [pc |-> "read", path |-> p,
                            file_id |-> db1.media_files[p].id, snapshot |-> db1]
  /\ UNCHANGED <<stats_dirty, enable_geocoding, files, lastOp, walkVars, watchVars,
                 pageVars, queryVars, lookups, geocoder, removal, on_disk, setupVars>>

\* INSERT OR REPLACE of the row add_exif_data built from what it read; the
\* metadata has no rating and no coordinates, so scan_file does nothing more
\* the INSERT fails with IntegrityError when exif_data.file_id refers to no
\* media_files row (PRAGMA foreign_keys = ON, cache_manager.py:46 and 121); the
\* error leaves add_exif_data
AddExifWrite ==
  /\ pending_exif.pc = "read"
  /\ LET file_id == pending_exif.file_id
         row == add_exif_data(pending_exif.snapshot, file_id,
                              [ExifNone EXCEPT !.ok = TRUE]).exif_data[file_id]
     IN IF foreign_key_ok(DB, file_id)
        THEN /\ SetStore([DB EXCEPT !.exif_data = (file_id :> row) @@ @])
             /\ UNCHANGED escaped
        ELSE /\ UNCHANGED storeVars
             /\ escaped' = escaped \cup {"add_exif_data"}
  /\ pending_exif' = [pc |-> "idle"]
  /\ UNCHANGED <<stats_dirty, ingestVars, scan_history, dbOpen, is_scanning, walk, calls,
                 rejected, finished, watchVars, pageVars, queryVars,
                 lookups, geocoder, removal, on_disk, setupVars>>

SpecRace ==
  WatcherInit /\ [][\E p \in IngestPaths :
                      AddExifRead(p) \/ AddExifWrite \/ MarkFavorite(p) \/ GeocodeFile]_vars

\* delete_file up to its DELETE FROM exif_data: the id is read, then the
\* metadata row is deleted; nothing is committed yet
DeleteFileExif(p) ==
  /\ removal.n < MaxRemovals
  /\ removal.op # "delete_file_exif"
  /\ IF p \notin DOMAIN media_files
     THEN /\ UNCHANGED storeVars
          /\ removal' = [n |-> removal.n + 1, op |-> "delete_file", path |-> p,
                         returned |-> FALSE]
     ELSE /\ SetStore([DB EXCEPT !.exif_data = Without(@, {media_files[p].id})])
          /\ removal' = [n |-> removal.n + 1, op |-> "delete_file_exif", path |-> p,
                         returned |-> FALSE, file_id |-> media_files[p].id]
  /\ UNCHANGED <<stats_dirty, ingestVars, walkVars, watchVars, pageVars, queryVars,
                 lookups, geocoder, on_disk, pending_exif, setupVars>>

\* DELETE FROM media_files WHERE id = ? with ON DELETE CASCADE, and the commit
DeleteFileMedia ==
  /\ removal.op = "delete_file_exif"
  /\ LET gone == {q \in DOMAIN media_files : media_files[q].id = removal.file_id}
     IN SetStore([DB EXCEPT !.media_files = Without(@, gone),
                            !.exif_data = Without(@, {removal.file_id})])
  /\ removal' = [n |-> removal.n, op |-> "delete_file", path |-> removal.path,
                 returned |-> TRUE]
  /\ UNCHANGED <<stats_dirty, ingestVars, walkVars, watchVars, pageVars, queryVars,
                 lookups, geocoder, on_disk, pending_exif, setupVars>>

\* ingests of a file, each suspended between the read and the write of
\* add_exif_data, interleaved with the watcher's removal and with delete_file
SpecCascade ==
  WatcherInit /\ [][\/ \E p \in IngestPaths : AddExifRead(p)
                    \/ AddExifWrite
                    \/ \E p \in IngestPaths : (removal.op # "delete_file_exif" /\ RemoveFile(p))
                    \/ \E p \in IngestPaths : DeleteFileExif(p)
                    \/ DeleteFileMedia]_vars

\* ------------------------------------------------- ingest: the properties
IngestKinds == {"scan_folder", "scan_file"}

Indexed(p) == p \in DOMAIN media_files
HasExif(p) == Indexed(p) /\ media_files[p].id \in DOMAIN exif_data
ExifOf(p) == exif_data[media_files[p].id]

PlaceOf(p) ==
  <<ExifOf(p).location_name, ExifOf(p).location_city,
    ExifOf(p).location_state, ExifOf(p).location_country>>

FavoriteIsTrue(p) ==
  /\ Indexed(p)
  /\ media_files[p].is_favorited = 1
  /\ HasExif(p) => ExifOf(p).is_favorited = 1

\* the fields the idempotence claim names
StickyFields(p) ==
  <<media_files[p].last_scanned, media_files[p].is_favorited, media_files[p].rating,
    IF HasExif(p)
    THEN <<ExifOf(p).is_favorited, ExifOf(p).rating, PlaceOf(p)>>
    ELSE <<>> >>

\* this step re-ingests p right after the explicit favoriteUpdate(p, true),
\* and the extraction carries no rating
ReingestAfterFavorite(p) ==
  /\ lastOp.kind = "favorite" /\ lastOp.path = p /\ Indexed(p)
  /\ lastOp'.kind \in IngestKinds /\ lastOp'.path = p
  /\ lastOp'.exif.rating = NoneInt

\* C1: favorite stickiness.  After favoriteUpdate(p, true) on an indexed path,
\* a re-ingest of p (full walk or single file) whose extraction carries no
\* rating leaves the favorite flag true in the MediaRecord and in the
\* MetadataRecord.
C1_FavoriteSticky ==
  [][\A p \in IngestPaths : ReingestAfterFavorite(p) => FavoriteIsTrue(p)']_vars

\* this step ingests p while its MetadataRecord has a non-empty city
ReingestOfPlaced(p) ==
  /\ HasExif(p) /\ TruthyStr(ExifOf(p).location_city)
  /\ lastOp'.kind \in IngestKinds /\ lastOp'.path = p

\* C2: place stickiness.  Once the MetadataRecord of p has a non-empty city,
\* a re-ingest of p leaves name, city, state and country unchanged, whatever
\* the coordinates, the geocode cache and the geocoder say.
C2_PlaceSticky ==
  [][\A p \in IngestPaths : ReingestOfPlaced(p) => PlaceOf(p)' = PlaceOf(p)]_vars

\* this step ingests the file the previous step ingested, with the same
\* size, modified time, extraction and geocoder answer
SecondIngest(p) ==
  /\ lastOp.kind \in IngestKinds /\ lastOp.path = p
  /\ lastOp'.kind \in IngestKinds /\ lastOp'.path = p
  /\ lastOp'.exif = lastOp.exif /\ lastOp'.geo = lastOp.geo
  /\ lastOp'.mtime = lastOp.mtime /\ lastOp'.size = lastOp.size

\* C3: idempotent re-ingest.  Ingesting the same unchanged file a second
\* time leaves lastIndexed, favorite, rating and the place fields as the
\* first ingest left them.
C3_IdempotentReingest ==
  [][\A p \in IngestPaths : SecondIngest(p) => StickyFields(p)' = StickyFields(p)]_vars

\* --------------------------------------------------- walk: the properties
ActiveWalkers == {w \in Walkers : walk[w].pc # "idle"}

\* C5: walk exclusivity.  At most one full walk is active at any time, and a
\* scan_folder request made while a walk is active is a no-op: no ScanRecord,
\* no catalog change, no error, and the active walk stays Running.
C5_WalkExclusive ==
  /\ [](Cardinality(ActiveWalkers) <= 1)
  /\ [][rejected' # rejected =>
          /\ UNCHANGED <<storeVars, scan_history, is_scanning, walk, finished, escaped>>
          /\ is_scanning
          /\ ActiveWalkers # {}]_vars

\* a request was rejected and the walk it met is still in its file loop
C5_Witness ==
  /\ rejected > 0
  /\ is_scanning
  /\ \E w \in Walkers : walk[w].pc = "files" /\ walk[w].files_added > 0

\* C6: every started walk inserts exactly one ScanRecord and applies exactly
\* one terminal update to it before it ends, on every way the walk can end.
C6_OneRecordOneTerminal ==
  \A i \in DOMAIN finished : finished[i].inserted = 1 /\ finished[i].terminal = 1

\* C7: the status stored in a walk's ScanRecord names the walk's outcome
\* (completed, aborted, failed), and the stored added-files count is the
\* number of files the walk upserted.
C7_StatusNamesOutcome ==
  \A i \in DOMAIN finished :
    finished[i].scan_id \in DOMAIN scan_history =>
      /\ scan_history[finished[i].scan_id].status = finished[i].outcome
      /\ scan_history[finished[i].scan_id].files_added = ToString(finished[i].upserted)

\* C8: no exception propagates out of scan_folder, scan_file or the drain
\* loop, whatever store call fails, the first write of a walk included.
C8_NothingEscapes == escaped = {}

\* ------------------------------------------------- watcher: the properties
InFlight(p, t, kind) ==
  {i \in DOMAIN drain.batch :
     drain.pc = kind /\ drain.batch[i][1] = p /\ drain.batch[i][2] >= t}

Done(p, t, kind) ==
  {i \in DOMAIN handled :
     handled[i].kind = kind /\ handled[i].path = p /\ handled[i].ts >= t}

\* C4: created(p) followed by modified(p) events, all run before the drain
\* loop takes p's entry: until the entry is taken p is pending as new only,
\* is not pending as modified, and a drain task exists to take it; once it is
\* taken p is handled exactly once, as a new file, and never as modified.
C4_EventCoalescing ==
  \A p \in WatchPaths :
    scen[p].on =>
      /\ p \notin DOMAIN pending_modified
      /\ InFlight(p, scen[p].ts, "modified") = {}
      /\ Done(p, scen[p].ts, "modified") = {}
      /\ IF scen[p].taken
         THEN /\ p \notin DOMAIN pending_new
              /\ Cardinality(InFlight(p, scen[p].ts, "new"))
                   + Cardinality(Done(p, scen[p].ts, "new")) = 1
         ELSE /\ p \in DOMAIN pending_new
              /\ pending_new[p] = scen[p].ts
              /\ InFlight(p, scen[p].ts, "new") = {}
              /\ Done(p, scen[p].ts, "new") = {}
              /\ processor_task = "pending"

C4_Witness ==
  \E p \in WatchPaths :
    /\ scen[p].on /\ scen[p].taken /\ scen[p].mods >= 1
    /\ Cardinality(Done(p, scen[p].ts, "new")) = 1
    /\ drain.pc = "sleepBatch"

\* C9: once stop_watching has returned, and until start_watching is called,
\* the three pending sets are empty after every step and no file is handled.
C9_StoppedStaysQuiet ==
  [][(stopped /\ stopped') =>
       /\ pending_new' = EmptyFn
       /\ pending_modified' = EmptyFn
       /\ pending_deleted' = {}
       /\ handled' = handled]_vars

\* ------------------------------------------------- listing: the properties
\* the single unbounded query with the same ordering
FullListing ==
  get_ordered_files(catalog, NumRows, order_by, order_direction, SqlNull, NoneInt)

\* C10: the rows collected page by page are always a prefix of the unbounded
\* query's rows, and all of them once the empty page has been returned.
C10_PaginationComplete ==
  /\ Len(collected) <= Len(FullListing)
  /\ collected = SubSeq(FullListing, 1, Len(collected))
  /\ exhausted => collected = FullListing

\* C11: with rows inserted between the page requests, every row that was in
\* the catalog when the listing began is returned at most once, and exactly
\* once when the empty page has been returned.
C11_StableUnderInserts ==
  LET Occurrences(x) == Cardinality({k \in DOMAIN collected : collected[k] = x})
  IN  \A i \in RowIds :
        /\ Occurrences(i) <= 1
        /\ exhausted => Occurrences(i) = 1

\* C12: for a reference file with capture time T, the burst query returns
\* exactly the files with capture time in [T - W, T + W]; when the reference
\* has both coordinates, exactly those of them within the distance tolerance;
\* when it has no coordinates, all of them.
C12_BurstSymmetry ==
  (/\ answer.done
   /\ query.op = "burst"
   /\ query.reference \in DOMAIN query.rows
   /\ query.rows[query.reference].date_taken # NoneInt
   /\ query.prefer_same_location)
  => LET rows == query.rows
         ref == rows[query.reference]
         T == ref.date_taken
         W == query.time_window_seconds
         in_window == {i \in DOMAIN rows :
                         /\ rows[i].date_taken # NoneInt
                         /\ T - W <= rows[i].date_taken
                         /\ rows[i].date_taken <= T + W}
         near == {i \in in_window :
                    /\ rows[i].latitude # NoneInt
                    /\ rows[i].longitude # NoneInt
                    /\ 11 * (IF rows[i].latitude >= ref.latitude
                             THEN rows[i].latitude - ref.latitude
                             ELSE ref.latitude - rows[i].latitude)
                         <= query.location_tolerance_meters}
         returned == {answer.rows[k] : k \in DOMAIN answer.rows}
     IN IF ref.latitude # NoneInt /\ ref.longitude # NoneInt
        THEN returned = near
        ELSE returned = in_window

C14_SampleHonoursFilters ==
  (answer.done /\ query.op = "random")
  => /\ Len(answer.rows) <= query.count
     /\ \A k \in DOMAIN answer.rows :
          LET r == query.rows[answer.rows[k]]
              \* the capture time, or the creation time of a file without one
              taken == IF r.date_taken # NoneInt THEN r.date_taken ELSE r.created_time
          IN /\ \A i \in DOMAIN r.folder : r.folder[i] \notin {"_Junk", "_Edit"}
             /\ query.folder # <<>> =>
                  IF query.recursive
                  THEN \/ r.folder = query.folder
                       \/ /\ Len(r.folder) > Len(query.folder)
                          /\ SubSeq(r.folder, 1, Len(query.folder) + 1)
                               = query.folder \o <<"/">>
                  ELSE r.folder = query.folder
             /\ query.file_type # NoneStr => r.file_type = query.file_type
             /\ query.favorites_only => r.is_favorited = 1
             /\ query.timestamp_from # NoneInt => taken >= query.timestamp_from
             /\ query.timestamp_to # NoneInt => taken <= query.timestamp_to

\* C15: when two lookups fall in the same 3-decimal cell and the first stored
\* the geocoder's answer, the second is a cache hit that does not call the
\* geocoder; the cache never holds two entries for one rounded cell.
C15_GeocodeCacheIdempotent ==
  LET cell(x) == (x + 5) \div 10
  IN /\ \A i, j \in DOMAIN lookups :
          (/\ i < j
           /\ lookups[i].stored
           /\ cell(lookups[i].latitude) = cell(lookups[j].latitude)
           /\ cell(lookups[i].longitude) = cell(lookups[j].longitude))
          => lookups[j].hit /\ ~lookups[j].called
     /\ \A k1, k2 \in DOMAIN geocode_cache :
          (cell(k1[1]) = cell(k2[1]) /\ cell(k1[2]) = cell(k2[2])) => k1 = k2

\* C15 witness: a lookup of 40.7124 was a hit on the entry stored by a lookup
\* of 40.7123
C15_Witness ==
  \E i, j \in DOMAIN lookups :
    /\ i < j
    /\ lookups[i].latitude = 407123
    /\ lookups[i].stored
    /\ lookups[j].latitude = 407124
    /\ lookups[j].hit

\* C16: any two requests one GeocodeService sends are at least the rate
\* limit delay (one second) apart, whichever callers made them.
C16_RequestsSpaced ==
  \A i, j \in DOMAIN geocoder.sent :
    i < j => geocoder.sent[j].time - geocoder.sent[i].time >= RATE_LIMIT_DELAY

\* C17: removing a path that has no record returns false and leaves the store
\* unchanged; removing a path that has one removes the record and its metadata
\* and returns true; for remove_file and for delete_file.
C17_RemoveAbsentIsFalse ==
  [][removal'.n # removal.n =>
       LET p == removal'.path
       IN IF p \in DOMAIN media_files
          THEN /\ removal'.returned
               /\ p \notin DOMAIN media_files'
               /\ media_files[p].id \notin DOMAIN exif_data'
          ELSE /\ ~removal'.returned
               /\ storeVars' = storeVars]_vars

\* C18: once a full walk has completed after the last change to the folder,
\* the store holds no record of a path that no longer exists in the folder.
C18_WalkReconciles ==
  (\E k \in DOMAIN finished : k > on_disk.epoch /\ finished[k].outcome = "completed")
  => \A p \in DOMAIN media_files : p \in on_disk.present

\* C19: on any store and any file, the single-file ingest leaves the
\* MediaRecord and the MetadataRecord in the same state as the full walk's
\* per-file step (favorite, rating and place included) and makes the same
\* decision on calling the geocoder.
C19_SamePipeline ==
  \A p \in IngestPaths, inp \in IngestInputs :
    LET one == scan_file(DB, FileData(p), inp[1], inp[2], now, enable_geocoding, 0)
        all == scan_folder_file(DB, FileData(p), inp[1], inp[2], now, enable_geocoding, 0)
    IN /\ one.db.media_files = all.db.media_files
       /\ one.db.exif_data = all.db.exif_data
       /\ one.called = all.called

\* C20: whatever runs between the read and the write of add_exif_data, the
\* write keeps the favorite and the place with a non-empty city that the
\* metadata row holds when it is written.
C20_ConcurrentWriteSurvives ==
  [][(pending_exif.pc = "read" /\ pending_exif'.pc = "idle"
        /\ pending_exif.file_id \in DOMAIN exif_data)
     => LET old == exif_data[pending_exif.file_id]
            new == exif_data'[pending_exif.file_id]
        IN /\ old.is_favorited = 1 => new.is_favorited = 1
           /\ TruthyStr(old.location_city) =>
                /\ new.location_name = old.location_name
                /\ new.location_city = old.location_city
                /\ new.location_state = old.location_state
                /\ new.location_country = old.location_country]_vars

\* C21: an ingest of a path that has a record keeps last_scanned when the
\* file's size and modified time both equal the stored ones and sets it to
\* the current time when either differs; for a path without a record it
\* sets last_scanned to the current time.
C21_LastIndexedRule ==
  [][(now' # now /\ lastOp'.kind \in IngestKinds)
     => LET p == lastOp'.path
        IN IF p \notin DOMAIN media_files
           THEN media_files'[p].last_scanned = now'
           ELSE IF /\ media_files[p].file_size = files[p].size
                   /\ media_files[p].modified_time = files[p].mtime
                THEN media_files'[p].last_scanned = media_files[p].last_scanned
                ELSE media_files'[p].last_scanned = now']_vars

\* C22: a run of the schema creation and migration raises nothing, adds only
\* allow-listed columns and leaves each migrated column in the table exactly
\* once; on a store that is already migrated it adds no column and leaves
\* the columns, the statistics row and the tables' rows as they are.
C22_MigrationIdempotent ==
  [][schema'.runs # schema.runs
     => /\ ~schema'.raised
        /\ \A i \in DOMAIN schema'.added :
             /\ schema'.added[i][1] \in allowed_col_names
             /\ schema'.added[i][2] \in allowed_col_types
        /\ \A c \in allowed_col_names :
             Cardinality({i \in DOMAIN schema'.exif_columns :
                            schema'.exif_columns[i] = c}) = 1
        /\ (schema.table /\ allowed_col_names \subseteq ColumnSet(schema.exif_columns))
           => /\ schema'.added = <<>>
              /\ schema'.exif_columns = schema.exif_columns
              /\ schema'.geocode_stats = schema.geocode_stats
              /\ DB' = DB]_vars

\* a second run came after the first one added columns and lookups were counted
C22_Witness ==
  /\ schema.runs = 2
  /\ schema.added = <<>>
  /\ schema.geocode_stats.cache_hits > 0
  /\ schema.exif_columns # MigratedColumns

\* ------------------------------------------------ watcher: more properties
\* the pending sets that hold path q
PendingIn(pn, pm, pd, q) == <<q \in DOMAIN pn, q \in DOMAIN pm, q \in pd>>

\* C23: when the closure of a created, modified or deleted event of a media
\* file p has run, p is in exactly one pending set: deleted after deleted(p);
\* new after created(p), and after modified(p) if p was in new; modified
\* after modified(p) if p was not in new, also when it was in deleted; the
\* other paths are where they were.
C23_NetPendingState ==
  [][(/\ threadq # <<>>
      /\ threadq' = Tail(threadq)
      /\ Head(threadq).kind \in {"created", "modified", "deleted"})
     => LET p == Head(threadq).src
            kind == Head(threadq).kind
        IN /\ PendingIn(pending_new', pending_modified', pending_deleted', p)
                = IF kind = "deleted" THEN <<FALSE, FALSE, TRUE>>
                  ELSE IF kind = "created" \/ p \in DOMAIN pending_new
                  THEN <<TRUE, FALSE, FALSE>>
                  ELSE <<FALSE, TRUE, FALSE>>
           /\ \A q \in WatchPaths \ {p} :
                PendingIn(pending_new', pending_modified', pending_deleted', q)
                  = PendingIn(pending_new, pending_modified, pending_deleted, q)]_vars

\* created(p) then modified(p) have been applied and no batch was taken
C23_Witness ==
  \E p \in WatchPaths :
    /\ scen[p].on /\ ~scen[p].taken /\ scen[p].mods >= 1
    /\ p \in DOMAIN pending_new
    /\ handled = <<>>
    /\ drain.pc = "sleepBatch"

\* the pending sets after the closure of deleted(p) and of created(p)
deleted_effect(P, p) ==
  [new |-> Without(P.new, {p}), modified |-> Without(P.modified, {p}),
   deleted |-> P.deleted \cup {p}]

created_effect(P, p, ts) ==
  [new |-> (p :> ts) @@ P.new, modified |-> Without(P.modified, {p}),
   deleted |-> P.deleted \ {p}]

\* C24: the closure of moved(src, dest) changes the pending sets as
\* deleted(src), if src is a media file, followed by created(dest), if dest
\* is a media file; a move of a directory or between two other files hands
\* no closure to the loop, so it changes no pending set and starts no task.
C24_MoveIsDeleteThenCreate ==
  [][/\ (/\ threadq # <<>>
         /\ threadq' = Tail(threadq)
         /\ Head(threadq).kind = "moved")
        => LET src == Head(threadq).src
               dest == Head(threadq).dest
               P0 == [new |-> pending_new, modified |-> pending_modified,
                      deleted |-> pending_deleted]
               P1 == IF is_media_file(src) THEN deleted_effect(P0, src) ELSE P0
               P2 == IF is_media_file(dest) THEN created_effect(P1, dest, evclock') ELSE P1
           IN /\ pending_new' = P2.new
              /\ pending_modified' = P2.modified
              /\ pending_deleted' = P2.deleted
     /\ emitted' # emitted
        => /\ UNCHANGED <<pending_new, pending_modified, pending_deleted, processor_task>>
           /\ \A i \in DOMAIN threadq' :
                threadq'[i].kind = "moved"
                  => /\ ~threadq'[i].is_directory
                     /\ is_media_file(threadq'[i].src) \/ is_media_file(threadq'[i].dest)]_vars

\* a move from one media file to another was applied after another event
\* and no batch has been taken
C24_Witness ==
  \E src \in WatchPaths, dest \in WatchPaths :
    /\ src # dest
    /\ src \in pending_deleted
    /\ dest \in DOMAIN pending_new
    /\ emitted = 2
    /\ threadq = <<>>
    /\ handled = <<>>

\* the position of a stage in one cycle of _process_event_batches
StageRank(pc) ==
  CASE pc = "sleepBatch" -> 0
    [] pc = "deleted" -> 1
    [] pc = "new" -> 2
    [] pc = "modified" -> 3
    [] pc = "sleepRate" -> 4
    [] OTHER -> 5

\* C25: a drain cycle goes through its deleted batch, then its new batch,
\* then its modified batch, and never back; each call of a handler is for
\* the head of the batch of the current stage; the new batch holds the
\* oldest pending entries, oldest first, and is handled in that order.
C25_DrainOrder ==
  [][/\ (processor_task = "pending" /\ processor_task' = "pending"
           /\ drain.pc # "sleepRate")
        => StageRank(drain'.pc) >= StageRank(drain.pc)
     /\ (processor_task = "pending" /\ processor_task' = "pending"
           /\ drain.pc = "sleepRate")
        => drain'.pc \in {"sleepRate", "sleepBatch"}
     /\ handled' # handled
        => /\ Len(handled') = Len(handled) + 1
           /\ handled'[Len(handled')] =
                [kind |-> drain.pc, path |-> Head(drain.batch)[1],
                 ts |-> Head(drain.batch)[2]]
           /\ drain'.pc = drain.pc => drain'.batch = Tail(drain.batch)
     /\ (drain'.pc = "new" /\ drain.pc # "new")
        => /\ \A i, j \in DOMAIN drain'.batch :
                i < j => drain'.batch[i][2] < drain'.batch[j][2]
           /\ \A i \in DOMAIN drain'.batch :
                /\ drain'.batch[i][1] \in DOMAIN pending_new
                /\ pending_new[drain'.batch[i][1]] = drain'.batch[i][2]
                /\ \A q \in DOMAIN pending_new' : drain'.batch[i][2] < pending_new'[q]]_vars

\* a path was removed and then two new files were ingested, oldest first
C25_Witness ==
  /\ Len(handled) = 3
  /\ handled[1].kind = "deleted"
  /\ handled[2].kind = "new"
  /\ handled[3].kind = "new"
  /\ handled[2].ts < handled[3].ts
  /\ drain.pc = "sleepRate"

\* the drain tasks that are not done
ActiveDrainTasks ==
  orphaned_tasks + (IF processor_task \in {"pending", "cancelling"} THEN 1 ELSE 0)

\* C26: at most one drain task is not done, whatever the order of events,
\* loop exits, stop_watching and start_watching; a handler call is in
\* progress only inside that task.
C26_SingleConsumer ==
  /\ ActiveDrainTasks <= 1
  /\ drain.batch # <<>> => processor_task \in {"pending", "cancelling"}

\* a closure ran after stop_watching while the cancelled task was not done
C26_Witness ==
  /\ processor_task = "cancelling"
  /\ stopped
  /\ DOMAIN pending_new # {}
  /\ ActiveDrainTasks = 1

\* the watcher is running and some path is pending
RunningPending ==
  /\ observer = "alive"
  /\ DOMAIN pending_new # {} \/ DOMAIN pending_modified # {} \/ pending_deleted # {}

\* no drain task, nothing pending
IdleEmpty ==
  /\ processor_task \in {"none", "done"}
  /\ pending_new = EmptyFn /\ pending_modified = EmptyFn /\ pending_deleted = {}

\* C27: while the watcher is running a drain task that is not done exists
\* whenever a path is pending, and, unless the watcher is stopped, the
\* pending paths are eventually drained, the task ends and the watcher is
\* idle with its three pending sets empty.
C27_WatcherLiveness ==
  /\ [](RunningPending => processor_task \in {"pending", "cancelling"})
  /\ RunningPending ~> (IdleEmpty \/ observer = "none")

\* C28: the three pending sets are pairwise disjoint and hold only paths of
\* media files, never a directory and never a file with another suffix.
C28_PendingSetsWellFormed ==
  /\ DOMAIN pending_new \cap DOMAIN pending_modified = {}
  /\ DOMAIN pending_new \cap pending_deleted = {}
  /\ DOMAIN pending_modified \cap pending_deleted = {}
  /\ \A p \in DOMAIN pending_new \cup DOMAIN pending_modified \cup pending_deleted :
       is_media_file(p) /\ ~IsDirectory(p)

\* after a drain cycle has handled a file, a move has left one path pending
\* as deleted and another as new
C28_Witness ==
  /\ handled # <<>>
  /\ DOMAIN pending_new # {}
  /\ pending_deleted # {}
  /\ threadq = <<>>
  /\ observer = "alive"

\* --------------------------------------------- walk: the per-file failures
\* C29: when a per-file step fails on the closed store, the walk ends at that
\* file: the store is as it was and the rest of the list is dropped, so that no
\* later file has a per-file step (extraction, upsert, geocoding, error log).
C29_AbortOnClosedStore ==
  [][\A w \in Walkers :
       (/\ walk[w].pc = "files" /\ walk[w].todo # <<>>
        /\ ~dbOpen
        /\ walk'[w] # walk[w])
       => /\ walk'[w] = IdleWalk
          /\ DB' = DB
          /\ Len(finished') = Len(finished) + 1
          /\ LET ended == finished'[Len(finished')]
             IN /\ ended.outcome = "aborted"
                /\ ended.upserted = walk[w].upserted
                /\ ended.left = Len(walk[w].todo) - 1]_vars

\* a walk was aborted with a file of its list not yet reached
C29_Witness ==
  \E i \in DOMAIN finished :
    /\ finished[i].outcome = "aborted"
    /\ finished[i].left >= 1
    /\ ~dbOpen

\* C30: while the store is open every per-file step, failing or not, goes on
\* to the next file of the list; a walk that ends completed has gone through
\* its whole list, whatever the number of per-file failures, and its
\* ScanRecord has status completed.
C30_OtherErrorsSkipOneFile ==
  /\ [][\A w \in Walkers :
          (/\ walk[w].pc = "files" /\ walk[w].todo # <<>>
           /\ dbOpen
           /\ walk'[w] # walk[w])
          => /\ walk'[w].pc = "files"
             /\ walk'[w].todo = Tail(walk[w].todo)
             /\ finished' = finished]_vars
  /\ [](\A i \in DOMAIN finished :
          finished[i].outcome = "completed"
            => /\ finished[i].left = 0
               /\ scan_history[finished[i].scan_id].status = "completed")

\* a walk with a failed file and an upserted file is through its list and
\* its ScanRecord is finalized
C30_Witness ==
  \E w \in Walkers :
    /\ walk[w].pc = "flush"
    /\ walk[w].scan_error_count >= 1
    /\ walk[w].upserted >= 1
    /\ walk[w].todo = <<>>
    /\ scan_history[walk[w].scan_id].status = "completed"

\* C31: is_scanning is true exactly while a walk is active, however the walks
\* before ended (completed, failed, aborted, exception, cancellation) and
\* whatever requests were rejected; a request made while no walk is active is
\* accepted.
C31_RunningIffWalkActive ==
  /\ [](is_scanning <=> ActiveWalkers # {})
  /\ [][(calls' # calls /\ ActiveWalkers = {})
          => (rejected' = rejected /\ ActiveWalkers' # {} /\ is_scanning')]_vars

\* after a walk ended by cancellation a request has been accepted and its
\* walk is in its file loop
C31_Witness ==
  /\ "CancelledError" \in escaped
  /\ is_scanning
  /\ \E w \in Walkers : walk[w].pc = "files"

\* C32: with a full walk and the watcher running concurrently, once the walk
\* has ended and the watcher has handled every deleted event, no file that
\* was deleted from the folder has a MediaRecord.
C32_DeletedStaysDeleted ==
  (/\ finished # <<>>
   /\ \A w \in Walkers : walk[w].pc = "idle"
   /\ pending_deleted = {})
  => \A p \in DOMAIN media_files : p \in on_disk.present

\* C33: no ingest, by the full walk or by the watcher's single-file ingest,
\* leaves a MediaRecord for a file located under _Junk or _Edit.
C33_QuarantineNotIndexed == \A p \in DOMAIN media_files : ~in_skipped_dir(p)

\* C34: favorite consistency.  After any sequence of completed ingests and
\* favoriteUpdate calls, every path with a MediaRecord and a MetadataRecord
\* has the same favorite flag in both, and an ingest whose extraction carries
\* rating 5 leaves the flag true in both.
C34_FavoriteConsistent ==
  /\ \A p \in DOMAIN media_files :
       HasExif(p) => media_files[p].is_favorited = ExifOf(p).is_favorited
  /\ (lastOp.kind \in IngestKinds /\ lastOp.exif.ok /\ lastOp.exif.rating = 5)
       => (/\ media_files[lastOp.path].is_favorited = 1
           /\ ExifOf(lastOp.path).is_favorited = 1)

\* C35: add_exif_data on an existing MetadataRecord, with no other write to
\* the row in between, leaves every place field that was non-empty at its
\* value, whichever of the other place fields are empty.
C35_PlaceFieldsPreserved ==
  [][(/\ pending_exif.pc = "read" /\ pending_exif'.pc = "idle"
      /\ pending_exif.file_id \in DOMAIN exif_data
      /\ pending_exif.file_id \in DOMAIN pending_exif.snapshot.exif_data
      /\ exif_data[pending_exif.file_id] = pending_exif.snapshot.exif_data[pending_exif.file_id])
     => \A f \in {"location_name", "location_city", "location_state", "location_country"} :
          TruthyStr(exif_data[pending_exif.file_id][f])
            => exif_data'[pending_exif.file_id][f] = exif_data[pending_exif.file_id][f]]_vars

\* C36: every MetadataRecord belongs to an existing MediaRecord, no two
\* MediaRecords share an id (so a MediaRecord has at most one MetadataRecord,
\* exif_data being keyed by file_id), and a metadata upsert for an id whose
\* MediaRecord was removed in the meantime creates no row.
C36_MetadataBelongsToMedia ==
  /\ [](\A file_id \in DOMAIN exif_data :
          \E p \in DOMAIN media_files : media_files[p].id = file_id)
  /\ [](\A p, q \in DOMAIN media_files : media_files[p].id = media_files[q].id => p = q)
  /\ [][(pending_exif.pc = "read" /\ pending_exif'.pc = "idle"
           /\ \A p \in DOMAIN media_files : media_files[p].id # pending_exif.file_id)
        => exif_data' = exif_data]_vars

\* a metadata upsert was refused because its MediaRecord had been removed,
\* and the path has been ingested again since, with a MetadataRecord
C36_Witness ==
  /\ "add_exif_data" \in escaped
  /\ \E p \in DOMAIN media_files : HasExif(p)

\* C37: record identity.  An ingest of a path that has a MediaRecord keeps the
\* record's id and its MetadataRecord stays under that id; a new MediaRecord
\* gets an id that no record had before; no two paths share an id.
C37_RecordIdentity ==
  /\ [][\A p \in DOMAIN media_files' :
          IF p \in DOMAIN media_files
          THEN /\ media_files'[p].id = media_files[p].id
               /\ (/\ media_files[p].id \in DOMAIN exif_data
                   /\ pending_exif.pc = "idle" /\ pending_exif'.pc = "read")
                    => media_files'[p].id \in DOMAIN exif_data'
          ELSE media_files'[p].id > media_seq]_vars
  /\ [](\A p \in DOMAIN media_files : media_files[p].id <= media_seq)
  /\ [](\A p, q \in DOMAIN media_files : p # q => media_files[p].id # media_files[q].id)

\* a path removed and ingested again has a new id, and an ingest of it has
\* just found its MetadataRecord under that id
C37_Witness ==
  /\ media_seq >= 2
  /\ pending_exif.pc = "read"
  /\ pending_exif.file_id = media_seq
  /\ pending_exif.file_id \in DOMAIN exif_data

\* C38: for every reference file, the result of get_burst_photos does not
\* contain the reference file itself.
C38_BurstExcludesReference ==
  (answer.done /\ query.op = "burst")
  => \A k \in DOMAIN answer.rows : answer.rows[k] # query.reference

\* C39: bounded geocoder retry.  A reverse_geocode call sends at most
\* max_retries requests; only a 429 or a timeout is followed by another request,
\* after a wait of 2^attempt seconds; the call returns a place only after a 200
\* and null otherwise, after the last 429 too; a null result changes nothing
\* in the store; and every call returns.
C39_BoundedRetry ==
  /\ [](/\ geocoder.sent <= max_retries
        /\ geocoder.sent = Len(geocoder.responses)
        /\ \A i \in DOMAIN geocoder.responses :
             i < Len(geocoder.responses) => geocoder.responses[i] \in {"429", "timeout"}
        /\ \A i \in DOMAIN geocoder.waits :
             /\ geocoder.waits[i] = 2 ^ (i - 1)
             /\ geocoder.responses[i] \in {"429", "timeout"}
        /\ geocoder.pc = "returned" =>
             /\ geocoder.result.ok <=> geocoder.responses[Len(geocoder.responses)] = "200"
             /\ geocoder.responses[Len(geocoder.responses)] = "429" =>
                  (geocoder.sent = max_retries /\ Len(geocoder.waits) = max_retries))
  /\ [][(geocoder.pc = "returned" /\ ~geocoder.result.ok)
          => (geocode_cache' = geocode_cache /\ exif_data' = exif_data)]_vars
  /\ [](geocoder.pc = "request" /\ geocoder.responses # <<>>
          => Len(geocoder.waits) = Len(geocoder.responses))
  /\ (geocoder.pc = "request" ~> geocoder.pc = "returned")

\* a call has returned null after three 429 responses and waits of 1, 2 and
\* 4 seconds
C39_Witness ==
  /\ geocoder.pc = "returned"
  /\ geocoder.responses = <<"429", "429", "429">>
  /\ geocoder.waits = <<1, 2, 4>>
  /\ ~geocoder.result.ok

\* C40: geocode hit/miss accounting.  Whenever no flush is in progress, the
\* durable hits plus the in-memory hits are the number of lookups that hit,
\* and likewise for the misses; and when a full walk completes the in-memory
\* counters are zero.
C40_NoLookupLostOrTwice ==
  /\ []((\A c \in 1..NumCallers : geocode_counters.flush[c].pc = "idle")
          => /\ schema.geocode_stats.cache_hits + geocode_counters.cache_hits
                  = Cardinality({i \in DOMAIN lookups : lookups[i].hit})
             /\ schema.geocode_stats.cache_misses + geocode_counters.cache_misses
                  = Cardinality({i \in DOMAIN lookups : ~lookups[i].hit}))
  /\ [][(~geocode_counters.walk_done /\ geocode_counters'.walk_done)
          => (geocode_counters'.cache_hits = 0 /\ geocode_counters'.cache_misses = 0)]_vars

====
